---- MODULE Spec2Model ----
(***************************************************************************)
(* Conversation / message consistency of the chat backend.                 *)
(*                                                                         *)
(* The Conversation model is src/unnamed/part_002 (participants as         *)
(* sub-documents with permissions), the Message model is                   *)
(* src/src/models/message.js and the socket handlers are                   *)
(* src/src/utils/emailHelper.js (initSocket).                              *)
(*                                                                         *)
(* Store semantics.  A Mongoose document is read by findById / findOne     *)
(* into a private copy, changed in memory and written back by save(),      *)
(* which $set's the paths that were modified (a Map key is one path).      *)
(* The schema sets no optimisticConcurrency, so a save from a stale copy   *)
(* overwrites the paths it modified.  Every await is a point where other   *)
(* handlers run.                                                           *)
(*                                                                         *)
(* Identifiers.  An id handed to a function is either an ObjectId or a     *)
(* string; stored reference fields are ObjectIds.  x.toString() gives the  *)
(* string, and === between a string and an ObjectId is false.              *)
(***************************************************************************)
EXTENDS Integers, Sequences, FiniteSets, TLC

VARIABLES
    convs,          \* Conversation collection: sequence of documents, _id = index
    msgs,           \* Message collection: sequence of documents, _id = index
    socks,          \* sockets ever opened: [user, live, rooms, recv, token, openedAt, closedAt]
    connectedUsers, \* module-level Map userId -> socketId (0: no entry)
    tasks,          \* in-flight handler invocations (position and locals)
    now,            \* Date.now(), in minutes
    last,           \* the latest completed call of an atomic operation
    prev,           \* the call completed before it
    nops,           \* number of operations started so far
    users,          \* User collection: [isOnline, lastSeen] of each user
    timers,         \* pending setTimeout callbacks of the disconnect handler
    secs            \* Date.now(), in seconds

vars == <<convs, msgs, socks, connectedUsers, tasks, now, last, prev, nops, users, timers, secs>>

----------------------------------------------------------------------------
(* Bounds *)

MaxSockets == 3
MaxSends == 2
MaxOps == 3
MaxClock == 16
MaxSeconds == 8

(* Program constants *)

DeleteLimitMinutes == 10

Users == {"a", "b", "c"}
\* the users who open connections in the messaging specifications
Clients == {"a", "b"}
UserOrder == <<"a", "b", "c">>
NoUser == "none"

----------------------------------------------------------------------------
(* Identifiers *)

Oid(u) == <<"oid", u>>
Str(u) == <<"str", u>>

\* the id of user u as a string or as an ObjectId
Tagged(tag, u) == IF tag = "str" THEN Str(u) ELSE Oid(u)

\* x.toString()
ToStr(x) == <<"str", x[2]>>

\* a === b : same primitive; two ObjectId objects built separately are
\* different objects, and a string never equals an object
StrictEq(x, y) == x[1] = "str" /\ y[1] = "str" /\ x[2] = y[2]

\* p.user.toString() === id.toString()
SameUser(stored, id) == StrictEq(ToStr(Oid(stored)), ToStr(id))

Rank(u) == CHOOSE i \in 1..Len(UserOrder) : UserOrder[i] = u

\* [...ids].sort() on two ids
SortPair(x, y) == IF Rank(x) <= Rank(y) THEN <<x, y>> ELSE <<y, x>>

Range(s) == {s[i] : i \in 1..Len(s)}

----------------------------------------------------------------------------
(* Conversation documents *)

MemberPermissions ==
    [canSendMessages |-> TRUE, canSendMedia |-> TRUE, canAddMembers |-> FALSE,
     canRemoveMembers |-> FALSE, canEditGroupInfo |-> FALSE, canPinMessages |-> FALSE]

AdminPermissions ==
    [canSendMessages |-> TRUE, canSendMedia |-> TRUE, canAddMembers |-> TRUE,
     canRemoveMembers |-> TRUE, canEditGroupInfo |-> TRUE, canPinMessages |-> TRUE]

Participant(u, role, perms) ==
    [user |-> u, role |-> role, isActive |-> TRUE, leftAt |-> -1, permissions |-> perms]

ZeroUnread == [count |-> 0, mentionsCount |-> 0, lastReadMessageId |-> 0, lastReadAt |-> -1]

\* Map.set(key, value)
MapSet(m, k, v) == [x \in DOMAIN m \cup {k} |-> IF x = k THEN v ELSE m[x]]

RECURSIVE initializeUnreadCounts(_, _)
initializeUnreadCounts(uc, ids) ==
    IF ids = <<>> THEN uc
    ELSE LET k == ToStr(Head(ids))[2]
             nxt == IF k \in DOMAIN uc THEN uc ELSE MapSet(uc, k, ZeroUnread)
         IN initializeUnreadCounts(nxt, Tail(ids))

EmptyMap == [x \in {} |-> ZeroUnread]

isParticipant(c, id) ==
    \E i \in 1..Len(c.participants) :
        SameUser(c.participants[i].user, id) /\ c.participants[i].isActive

isAdmin(c, id) ==
    \E i \in 1..Len(c.participants) :
        /\ SameUser(c.participants[i].user, id)
        /\ c.participants[i].role = "admin"
        /\ c.participants[i].isActive

activeParticipants(c) ==
    {i \in 1..Len(c.participants) : c.participants[i].isActive}

adminParticipants(c) ==
    {i \in 1..Len(c.participants) :
        c.participants[i].role = "admin" /\ c.participants[i].isActive}

UsersOf(c) == {p.user : p \in Range(c.participants)}

ActiveUsers(c) == {c.participants[i].user : i \in activeParticipants(c)}

AdminUsers(c) == {c.participants[i].user : i \in adminParticipants(c)}

canUserSendMessages(c, id) ==
    \E i \in 1..Len(c.participants) :
        /\ SameUser(c.participants[i].user, id)
        /\ c.participants[i].isActive
        /\ \A j \in 1..(i - 1) :
              ~(SameUser(c.participants[j].user, id) /\ c.participants[j].isActive)
        /\ IF c.messageSettings.onlyAdminsCanSend
           THEN c.participants[i].role = "admin"
           ELSE c.participants[i].permissions.canSendMessages

getUnreadCount(c, u) == IF u \in DOMAIN c.unreadCounts THEN c.unreadCounts[u].count ELSE 0

ConvIds == 1..Len(convs)
\* a well-formed id that no document has
UnknownId == 0 - 1
MsgIds == 1..Len(msgs)

----------------------------------------------------------------------------
(* Conversation statics (src/unnamed/part_002).  Each returns the error it *)
(* throws ("" when it returns normally) and the collection afterwards.     *)

\* inviteLink of a document that never had one; code 0 is undefined, maxUses
\* 0 is null (both falsy at line 991)
NoInvite == [code |-> 0, expiresAt |-> 0 - 1, maxUses |-> 0, currentUses |-> 0]

InviteDays == 7
MinutesPerDay == 24 * 60

\* Math.random(): a code no stored document carries
FreshCode(cs) ==
    LET codes == {cs[i].inviteLink.code : i \in 1..Len(cs)} \cup {0}
    IN 1 + (CHOOSE m \in codes : \A k \in codes : k <= m)

\* a code no document ever carried
UnknownCode == 0 - 1

\* generateInviteLink(createdBy, expiresInDays = 7, maxUses = null)
generateInviteLink(c, code, expiresInDays, maxUses) ==
    [c EXCEPT !.inviteLink = [code |-> code,
                              expiresAt |-> now + expiresInDays * MinutesPerDay,
                              maxUses |-> maxUses, currentUses |-> 0]]

NewConversation(type, name, parts, ids) ==
    [type |-> type, name |-> name, participants |-> parts,
     unreadCounts |-> initializeUnreadCounts(EmptyMap, ids),
     lastMessage |-> 0, totalMessages |-> 0, isDeleted |-> FALSE,
     messageSettings |-> [onlyAdminsCanSend |-> FALSE],
     inviteLink |-> NoInvite]

\* the findOne of findOrCreateDirectConversation: 0 when nothing matches
FindDirect(cs, sortedIds) ==
    LET hits == {i \in 1..Len(cs) :
                    /\ cs[i].type = "individual"
                    /\ Range(sortedIds) \subseteq {p.user : p \in Range(cs[i].participants)}
                    /\ \E p \in Range(cs[i].participants) : p.isActive
                    /\ ~cs[i].isDeleted}
    IN IF hits = {} THEN 0 ELSE CHOOSE i \in hits : \A j \in hits : i <= j

\* the document findOrCreateDirectConversation saves when it found none
NewDirectConversation(sortedIds) ==
    NewConversation("individual", "",
        [i \in 1..2 |-> Participant(sortedIds[i], "member", MemberPermissions)],
        [i \in 1..2 |-> Oid(sortedIds[i])])

\* participantIds and adminId are strings, compared with includes() and ===
createGroupConversation(cs, participantIds, name, adminId) ==
    IF Len(participantIds) < 2
    THEN [err |-> "Group conversations must have at least 2 participants", convs |-> cs]
    ELSE IF ~\E i \in 1..Len(participantIds) : StrictEq(participantIds[i], adminId)
    THEN [err |-> "Admin must be a participant", convs |-> cs]
    ELSE IF name = ""
    THEN [err |-> "ValidationError: name is required", convs |-> cs]
    ELSE LET parts == [i \in 1..Len(participantIds) |->
                          IF StrictEq(participantIds[i], adminId)
                          THEN Participant(participantIds[i][2], "admin", AdminPermissions)
                          ELSE Participant(participantIds[i][2], "member", MemberPermissions)]
         IN [err |-> "",
             convs |-> Append(cs, generateInviteLink(
                                      NewConversation("group", name, parts, participantIds),
                                      FreshCode(cs), InviteDays, 0))]

\* index of the first participant entry of the user, 0 when there is none
FindEntry(c, id) ==
    LET hits == {i \in 1..Len(c.participants) : SameUser(c.participants[i].user, id)}
    IN IF hits = {} THEN 0 ELSE CHOOSE i \in hits : \A j \in hits : i <= j

\* a removal that asks of the caller only to be listed in the conversation
removeParticipantByAnyMember(cs, conversationId, participantId, removedBy) ==
    IF conversationId \notin 1..Len(cs)
    THEN [err |-> "Conversation not found", convs |-> cs]
    ELSE LET c == cs[conversationId]
             actor == FindEntry(c, removedBy)
             target == FindEntry(c, participantId)
         IN IF c.type = "direct"
            THEN [err |-> "Cannot remove participants from direct conversations", convs |-> cs]
            ELSE IF /\ ~StrictEq(removedBy, participantId)
                    /\ ~isAdmin(c, removedBy)
                    /\ actor = 0
            THEN [err |-> "You do not have permission to remove participants", convs |-> cs]
            ELSE IF target = 0
            THEN [err |-> "Participant not found", convs |-> cs]
            ELSE [err |-> "",
                  convs |-> [cs EXCEPT ![conversationId].participants[target].isActive = FALSE,
                                       ![conversationId].participants[target].leftAt = now]]

\* the entries are kept by the pre-save hooks, which write statistics only
removeParticipant(cs, conversationId, participantId, removedBy) ==
    IF conversationId \notin 1..Len(cs)
    THEN [err |-> "Conversation not found", convs |-> cs]
    ELSE LET c == cs[conversationId]
             actor == FindEntry(c, removedBy)
             target == FindEntry(c, participantId)
         IN IF c.type = "direct"
            THEN [err |-> "Cannot remove participants from direct conversations", convs |-> cs]
            ELSE IF /\ ~StrictEq(removedBy, participantId)
                    /\ ~isAdmin(c, removedBy)
                    /\ (actor = 0 \/ ~c.participants[actor].permissions.canRemoveMembers)
            THEN [err |-> "You do not have permission to remove participants", convs |-> cs]
            ELSE IF target = 0
            THEN [err |-> "Participant not found", convs |-> cs]
            ELSE [err |-> "",
                  convs |-> [cs EXCEPT ![conversationId].participants[target].isActive = FALSE,
                                       ![conversationId].participants[target].leftAt = now]]

\* findOrCreateDirectConversation(participantIds), its two awaits in one step
findOrCreateDirectConversation(cs, participantIds) ==
    IF Len(participantIds) # 2
    THEN [err |-> "Direct conversations must have exactly 2 participants", convs |-> cs]
    ELSE LET sortedIds == SortPair(participantIds[1][2], participantIds[2][2])
         IN IF FindDirect(cs, sortedIds) # 0
            THEN [err |-> "", convs |-> cs]
            ELSE [err |-> "", convs |-> Append(cs, NewDirectConversation(sortedIds))]

\* participantIds.filter(id => !existingParticipantIds.includes(id.toString()))
NewParticipantIds(c, participantIds) ==
    SelectSeq(participantIds, LAMBDA id : id[2] \notin ActiveUsers(c))

\* addParticipants(conversationId, participantIds, addedBy)
addParticipants(cs, conversationId, participantIds, addedBy) ==
    IF conversationId \notin 1..Len(cs)
    THEN [err |-> "Conversation not found", convs |-> cs]
    ELSE LET c == cs[conversationId]
             actor == FindEntry(c, addedBy)
             newIds == NewParticipantIds(c, participantIds)
             newParts == [i \in 1..Len(newIds) |->
                             Participant(newIds[i][2], "member", MemberPermissions)]
         IN IF c.type = "direct"
            THEN [err |-> "Cannot add participants to direct conversations", convs |-> cs]
            ELSE IF /\ ~isAdmin(c, addedBy)
                    /\ (actor = 0 \/ ~c.participants[actor].permissions.canAddMembers)
            THEN [err |-> "You do not have permission to add participants", convs |-> cs]
            ELSE IF newIds = <<>>
            THEN [err |-> "", convs |-> cs]
            ELSE [err |-> "",
                  convs |-> [cs EXCEPT ![conversationId].participants = c.participants \o newParts,
                                       ![conversationId].unreadCounts =
                                            initializeUnreadCounts(c.unreadCounts, newIds)]]

\* the findOne of joinByInviteLink: 0 when no document matches
FindByInvite(cs, inviteCode) ==
    LET hits == {i \in 1..Len(cs) :
                    /\ cs[i].inviteLink.code = inviteCode
                    /\ cs[i].inviteLink.code # 0
                    /\ cs[i].inviteLink.expiresAt > now
                    /\ ~cs[i].isDeleted}
    IN IF hits = {} THEN 0 ELSE CHOOSE i \in hits : \A j \in hits : i <= j

\* a join that leaves the unread Map as it is
joinByInviteLinkKeepingCounts(cs, inviteCode, userId) ==
    LET found == FindByInvite(cs, inviteCode)
    IN IF found = 0
       THEN [err |-> "Invalid or expired invite link", convs |-> cs]
       ELSE LET c == cs[found]
            IN IF isParticipant(c, userId)
               THEN [err |-> "You are already a member of this conversation", convs |-> cs]
               ELSE IF c.inviteLink.maxUses # 0 /\ c.inviteLink.currentUses >= c.inviteLink.maxUses
               THEN [err |-> "Invite link has reached maximum uses", convs |-> cs]
               ELSE [err |-> "",
                     convs |-> [cs EXCEPT
                        ![found].participants =
                            Append(c.participants, Participant(userId[2], "member", MemberPermissions)),
                        ![found].inviteLink.currentUses = c.inviteLink.currentUses + 1]]

\* joinByInviteLink(inviteCode, userId)
joinByInviteLink(cs, inviteCode, userId) ==
    LET found == FindByInvite(cs, inviteCode)
    IN IF found = 0
       THEN [err |-> "Invalid or expired invite link", convs |-> cs]
       ELSE LET c == cs[found]
            IN IF isParticipant(c, userId)
               THEN [err |-> "You are already a member of this conversation", convs |-> cs]
               ELSE IF c.inviteLink.maxUses # 0 /\ c.inviteLink.currentUses >= c.inviteLink.maxUses
               THEN [err |-> "Invite link has reached maximum uses", convs |-> cs]
               ELSE [err |-> "",
                     convs |-> [cs EXCEPT
                        ![found].participants =
                            Append(c.participants, Participant(userId[2], "member", MemberPermissions)),
                        ![found].inviteLink.currentUses = c.inviteLink.currentUses + 1,
                        ![found].unreadCounts = initializeUnreadCounts(c.unreadCounts, <<userId>>)]]

\* index of the first active participant entry of the user, 0 when none
FindActiveEntry(c, id) ==
    LET hits == {i \in 1..Len(c.participants) :
                    SameUser(c.participants[i].user, id) /\ c.participants[i].isActive}
    IN IF hits = {} THEN 0 ELSE CHOOSE i \in hits : \A j \in hits : i <= j

\* { ...participant.permissions, ...permissions }
MergePermissions(old, permissions) ==
    [k \in DOMAIN old |-> IF k \in DOMAIN permissions THEN permissions[k] ELSE old[k]]

\* updateParticipantPermissions(conversationId, participantId, permissions, updatedBy)
updateParticipantPermissions(cs, conversationId, participantId, permissions, updatedBy) ==
    IF conversationId \notin 1..Len(cs)
    THEN [err |-> "Conversation not found", convs |-> cs]
    ELSE LET c == cs[conversationId]
             target == FindActiveEntry(c, participantId)
         IN IF ~isAdmin(c, updatedBy)
            THEN [err |-> "Only admins can update participant permissions", convs |-> cs]
            ELSE IF target = 0
            THEN [err |-> "Participant not found", convs |-> cs]
            ELSE [err |-> "",
                  convs |-> [cs EXCEPT ![conversationId].participants[target].permissions =
                                 MergePermissions(c.participants[target].permissions, permissions)]]

\* updateLastMessage, in memory: the forEach over the loaded document's
\* participants; yields the Map after the loop
RECURSIVE UlmLoop(_, _, _)
UlmLoop(uc, parts, senderId) ==
    IF parts = <<>> THEN uc
    ELSE LET p == Head(parts)
             k == p.user
             current == IF k \in DOMAIN uc THEN uc[k] ELSE ZeroUnread
             nxt == IF ~SameUser(p.user, senderId) /\ p.isActive
                    THEN MapSet(uc, k, [current EXCEPT !.count = current.count + 1])
                    ELSE uc
         IN UlmLoop(nxt, Tail(parts), senderId)

\* the keys updateLastMessage marks modified
UlmKeys(doc, senderId) ==
    {p.user : p \in {q \in Range(doc.participants) : ~SameUser(q.user, senderId) /\ q.isActive}}

\* conversation.save() of updateLastMessage: doc is the copy findById loaded
UlmSave(cs, conversationId, doc, messageId, senderId) ==
    LET mem == UlmLoop(doc.unreadCounts, doc.participants, senderId)
        keys == UlmKeys(doc, senderId)
        cur == cs[conversationId].unreadCounts
    IN [cs EXCEPT ![conversationId].unreadCounts =
                        [k \in DOMAIN cur \cup keys |-> IF k \in keys THEN mem[k] ELSE cur[k]],
                  ![conversationId].lastMessage = messageId,
                  ![conversationId].totalMessages = doc.totalMessages + 1]

\* markAsRead(conversationId, userId, lastReadMessageId = null); 0 is null
markAsRead(cs, conversationId, userId, lastReadMessageId) ==
    IF conversationId \notin 1..Len(cs)
    THEN [err |-> "Conversation not found", convs |-> cs]
    ELSE LET c == cs[conversationId]
             entry == [count |-> 0, mentionsCount |-> 0,
                       lastReadMessageId |-> IF lastReadMessageId # 0 THEN lastReadMessageId
                                             ELSE c.lastMessage,
                       lastReadAt |-> now]
         IN [err |-> "",
             convs |-> [cs EXCEPT ![conversationId].unreadCounts =
                                        MapSet(c.unreadCounts, ToStr(userId)[2], entry)]]

----------------------------------------------------------------------------
(* Message statics (src/src/models/message.js) *)

\* Message.createMessage: this.create validates the schema (content is
\* required, after trim, unless there is media) and stores the document
NewMessage(conversationId, senderUser, content, media, clientId) ==
    [conversation |-> conversationId, sender |-> senderUser, content |-> content,
     media |-> media, status |-> "sent", deliveredTo |-> <<>>, readBy |-> <<>>,
     isDeleted |-> FALSE, deletedFor |-> <<>>, createdAt |-> now, clientId |-> clientId,
     reactions |-> <<>>, editHistory |-> <<>>, isPinned |-> FALSE, pinnedBy |-> NoUser]

createMessage(ms, conversationId, senderUser, content, media, clientId) ==
    IF content = "" /\ media = 0
    THEN [err |-> "ValidationError: content is required", msgs |-> ms]
    ELSE [err |-> "",
          msgs |-> Append(ms, NewMessage(conversationId, senderUser, content, media, clientId))]

Statuses == {"sending", "sent", "delivered", "read", "failed"}

\* updateStatus(messageId, status, userId)
updateStatus(ms, messageId, status, userId) ==
    IF messageId \notin 1..Len(ms)
    THEN [err |-> "Message not found", msgs |-> ms]
    ELSE IF status \notin Statuses
    THEN [err |-> "Invalid status", msgs |-> ms]
    ELSE LET m == ms[messageId]
             alreadyDelivered ==
                 \E i \in 1..Len(m.deliveredTo) : StrictEq(ToStr(Oid(m.deliveredTo[i])), userId)
             alreadyRead ==
                 \E i \in 1..Len(m.readBy) : StrictEq(ToStr(Oid(m.readBy[i])), userId)
             delivered == IF (status = "delivered" \/ status = "read") /\ ~alreadyDelivered
                          THEN Append(m.deliveredTo, userId[2])
                          ELSE m.deliveredTo
             read == IF ~(status = "delivered" \/ status = "read")
                        /\ status = "read" /\ ~alreadyRead
                     THEN Append(m.readBy, userId[2])
                     ELSE m.readBy
         IN [err |-> "",
             msgs |-> [ms EXCEPT ![messageId].status = status,
                                 ![messageId].deliveredTo = delivered,
                                 ![messageId].readBy = read]]

----------------------------------------------------------------------------
(* Sockets, rooms and events (src/src/utils/emailHelper.js) *)

Event(ev, conv, msg, clientId, val) ==
    [ev |-> ev, conv |-> conv, msg |-> msg, clientId |-> clientId, val |-> val]

LiveSocks == {s \in 1..Len(socks) : socks[s].live}

\* socket.emit: nothing is delivered to a closed connection
EmitTo(sk, targets, e) ==
    [s \in 1..Len(sk) |->
        IF s \in targets /\ sk[s].live THEN [sk[s] EXCEPT !.recv = Append(@, e)] ELSE sk[s]]

\* the sockets in room conversation_<room>
InRoom(sk, room) == {s \in 1..Len(sk) : sk[s].live /\ room \in sk[s].rooms}

\* joinParticipantsToRoom: the one socket the Map holds for each participant
joinParticipantsToRoom(sk, cu, conversationId, participantUsers) ==
    [s \in 1..Len(sk) |->
        IF \E u \in participantUsers : cu[u] = s /\ sk[s].live
        THEN [sk[s] EXCEPT !.rooms = @ \cup {conversationId}]
        ELSE sk[s]]

\* handshake.auth.token: absent, not verifiable, or a verified token naming a
\* user id
NoToken == [kind |-> "none", user |-> NoUser]
ValidToken(u) == [kind |-> "valid", user |-> u]
ForgedToken(u) == [kind |-> "invalid", user |-> u]

\* a user id no User document has
Ghost == "z"

\* an authentication that looks the user up without verifying the token
AuthErrorUnverified(token) ==
    IF token.kind = "none" THEN "Authentication error: No token provided"
    ELSE IF token.user \notin Users THEN "Authentication error: User not found"
    ELSE ""

\* io.use: the error handed to next(), "" when socket.user is set
AuthError(token) ==
    IF token.kind = "none" THEN "Authentication error: No token provided"
    ELSE IF token.kind # "valid" THEN "Authentication error: Invalid token"
    ELSE IF token.user \notin Users THEN "Authentication error: User not found"
    ELSE ""

NewSocket(u, token) ==
    [user |-> u, live |-> TRUE, rooms |-> {}, recv |-> <<>>, token |-> token,
     openedAt |-> secs, closedAt |-> 0 - 1]

\* updateUserOnlineStatus(userId, isOnline)
updateUserOnlineStatus(us, u, isOnline) ==
    [us EXCEPT ![u] = [isOnline |-> isOnline, lastSeen |-> secs]]

\* the handshake of a connection.  When io.use passes an error to next() the
\* connection is refused: it gets connect_error and the connection handler
\* does not run.  Otherwise io.on("connection"): the Map entry of the user
\* is overwritten and the user is stored as online; the query of
\* joinUserConversations compares the participant sub-documents with an
\* ObjectId and so matches no conversation
Connect(token) ==
    /\ Len(socks) < MaxSockets
    /\ IF AuthError(token) # ""
       THEN /\ socks' = Append(socks, [NewSocket(NoUser, token) EXCEPT
                                          !.live = FALSE, !.closedAt = secs,
                                          !.recv = <<Event("connect_error", 0, 0, 0,
                                                           AuthError(token))>>])
            /\ UNCHANGED <<connectedUsers, users>>
       ELSE /\ socks' = Append(socks, NewSocket(token.user, token))
            /\ connectedUsers' = [connectedUsers EXCEPT ![token.user] = Len(socks) + 1]
            /\ users' = updateUserOnlineStatus(users, token.user, TRUE)
    /\ UNCHANGED <<convs, msgs, tasks, now, last, prev, nops, timers, secs>>

GraceSeconds == 5

\* socket.on("disconnect"): the Map entry of the user is deleted whichever
\* socket of the user closes, and the 5-second timer is set; a closed
\* socket is in no room
Disconnect(s) ==
    /\ s \in LiveSocks
    /\ socks' = [socks EXCEPT ![s].live = FALSE, ![s].rooms = {}, ![s].closedAt = secs]
    /\ connectedUsers' = [connectedUsers EXCEPT ![socks[s].user] = 0]
    /\ timers' = timers \cup {[sock |-> s, user |-> socks[s].user, due |-> secs + GraceSeconds]}
    /\ UNCHANGED <<convs, msgs, tasks, now, last, prev, nops, users, secs>>

----------------------------------------------------------------------------
(* message:send (emailHelper.js 884-1053), one action per await.  The      *)
(* un-awaited fixCorruptedConversations() it starts rewrites only          *)
(* documents whose Map or participants are malformed; the store of the     *)
(* model holds none, so it writes nothing.                                 *)

TaskIds == 1..MaxSends

Payloads == {"empty", "text", "media"}
ContentOf(p) == IF p = "text" THEN "hello" ELSE ""
MediaOf(p) == IF p = "media" THEN 1 ELSE 0

IdleTask ==
    [pc |-> "idle", sock |-> 0, sender |-> NoUser, conversationId |-> 0, recipientId |-> NoUser,
     payload |-> "empty", clientId |-> 0, conv |-> 0, doc |-> <<>>, msg |-> 0,
     created |-> 0, result |-> "none", err |-> "", echo |-> 0,
     fresh |-> FALSE, socksAtBegin |-> 0]

\* a test that takes only a missing media array, not an empty one, for no media
NoPayloadUnlessArray(content, media) == content = "" /\ media < 0

\* the line-920 test: !content && (!media || media.length === 0)
NoPayload(content, media) == content = "" /\ media = 0

\* an error return that only logs
FailSilently(t, e) ==
    /\ tasks' = [tasks EXCEPT ![t].pc = "done", ![t].result = "error", ![t].err = e,
                              ![t].echo = tasks[t].clientId]
    /\ socks' = socks

\* socket.emit("message:error", {error, clientId}) and the handler returns
Fail(t, e) ==
    /\ tasks' = [tasks EXCEPT ![t].pc = "done", ![t].result = "error", ![t].err = e,
                              ![t].echo = tasks[t].clientId]
    /\ socks' = EmitTo(socks, {tasks[t].sock},
                       Event("message:error", 0, 0, tasks[t].clientId, ""))

\* receipt of the event up to the first await
SendBegin(t, s, conversationId, recipientId, payload) ==
    /\ tasks[t].pc = "idle"
    /\ \A t2 \in TaskIds : t2 < t => tasks[t2].pc # "idle"
    /\ s \in LiveSocks
    /\ LET me == socks[s].user
           tk == [IdleTask EXCEPT !.pc = "lookup", !.sock = s, !.sender = me,
                                  !.conversationId = conversationId,
                                  !.recipientId = recipientId,
                                  !.payload = payload, !.clientId = t,
                                  !.socksAtBegin = Len(socks),
                                  !.fresh = /\ recipientId # NoUser
                                            /\ FindDirect(convs, SortPair(me, recipientId)) = 0]
       IN IF conversationId = 0 /\ recipientId = NoUser
          THEN /\ tasks' = [tasks EXCEPT ![t] = [tk EXCEPT !.pc = "done", !.result = "error",
                                                          !.err = "Invalid ID format", !.echo = t]]
               /\ socks' = EmitTo(socks, {s}, Event("message:error", 0, 0, t, ""))
          ELSE IF NoPayload(ContentOf(payload), MediaOf(payload))
          THEN /\ tasks' = [tasks EXCEPT ![t] = [tk EXCEPT !.pc = "done", !.result = "error",
                                   !.err = "Message must have content or media", !.echo = t]]
               /\ socks' = EmitTo(socks, {s}, Event("message:error", 0, 0, t, ""))
          ELSE /\ tasks' = [tasks EXCEPT ![t] = tk]
               /\ socks' = socks
    /\ UNCHANGED <<convs, msgs, connectedUsers, now, last, prev, nops, users, timers, secs>>

\* lines 979-1000 on the conversation the handler holds: "" when it may go on
SendChecks(c, senderId) ==
    IF ~\E i \in 1..Len(c.participants) : SameUser(c.participants[i].user, senderId)
    THEN "You are not a participant in this conversation"
    ELSE IF c.type = "group"
    THEN "Cannot read properties of undefined (reading 'onlyAdminsCanMessage')"
    ELSE ""

\* await Conversation.findById(conversationId), or the handler's own findOne,
\* whose $all of ObjectIds matches no participant sub-document
SendLookup(t) ==
    /\ tasks[t].pc = "lookup"
    /\ LET tk == tasks[t]
           me == tk.sender
       IN IF tk.conversationId # 0
          THEN IF tk.conversationId \notin ConvIds
               THEN Fail(t, "Conversation not found")
               ELSE LET e == SendChecks(convs[tk.conversationId], Oid(me))
                    IN IF e # "" THEN Fail(t, e)
                       ELSE /\ tasks' = [tasks EXCEPT ![t].pc = "createMessage",
                                                      ![t].conv = tk.conversationId]
                            /\ socks' = socks
          ELSE /\ tasks' = [tasks EXCEPT ![t].pc = "countUsers"]
               /\ socks' = socks
    /\ UNCHANGED <<convs, msgs, connectedUsers, now, last, prev, nops, users, timers, secs>>

\* await User.countDocuments({_id: {$in: [senderId, recipientId]}}) === 2
SendCountUsers(t) ==
    /\ tasks[t].pc = "countUsers"
    /\ LET tk == tasks[t]
           me == tk.sender
       IN IF Cardinality({me, tk.recipientId} \cap Users) # 2
          THEN Fail(t, "Recipient not found")
          ELSE /\ tasks' = [tasks EXCEPT ![t].pc = "findDirect"]
               /\ socks' = socks
    /\ UNCHANGED <<convs, msgs, connectedUsers, now, last, prev, nops, users, timers, secs>>

\* findOrCreateDirectConversation: await this.findOne(...)
SendFindDirect(t) ==
    /\ tasks[t].pc = "findDirect"
    /\ LET tk == tasks[t]
           me == tk.sender
           found == FindDirect(convs, SortPair(me, tk.recipientId))
       IN tasks' = [tasks EXCEPT ![t].pc = IF found = 0 THEN "saveDirect" ELSE "joinRoom",
                                 ![t].conv = found]
    /\ UNCHANGED <<convs, msgs, socks, connectedUsers, now, last, prev, nops, users, timers, secs>>

\* findOrCreateDirectConversation: await conversation.save() of the new document
SendSaveDirect(t) ==
    /\ tasks[t].pc = "saveDirect"
    /\ LET tk == tasks[t]
           me == tk.sender
       IN /\ convs' = Append(convs, NewDirectConversation(SortPair(me, tk.recipientId)))
          /\ tasks' = [tasks EXCEPT ![t].pc = "joinRoom", ![t].conv = Len(convs) + 1,
                                    ![t].created = Len(convs) + 1]
    /\ UNCHANGED <<msgs, socks, connectedUsers, now, last, prev, nops, users, timers, secs>>

\* the findById that ends findOrCreateDirectConversation, then
\* joinParticipantsToRoom and the checks of lines 979-1000
SendJoinRoom(t) ==
    /\ tasks[t].pc = "joinRoom"
    /\ LET tk == tasks[t]
           me == tk.sender
           joined == joinParticipantsToRoom(socks, connectedUsers, tk.conv, {me, tk.recipientId})
           e == SendChecks(convs[tk.conv], Oid(me))
       IN IF e # ""
          THEN /\ tasks' = [tasks EXCEPT ![t].pc = "done", ![t].result = "error", ![t].err = e,
                                         ![t].echo = tk.clientId]
               /\ socks' = EmitTo(joined, {tk.sock}, Event("message:error", 0, 0, tk.clientId, ""))
          ELSE /\ tasks' = [tasks EXCEPT ![t].pc = "createMessage"]
               /\ socks' = joined
    /\ UNCHANGED <<convs, msgs, connectedUsers, now, last, prev, nops, users, timers, secs>>

\* await Message.createMessage(messageData)
SendCreateMessage(t) ==
    /\ tasks[t].pc = "createMessage"
    /\ LET tk == tasks[t]
           me == tk.sender
           r == createMessage(msgs, tk.conv, me, ContentOf(tk.payload), MediaOf(tk.payload),
                              tk.clientId)
       IN IF r.err # ""
          THEN Fail(t, r.err) /\ msgs' = msgs
          ELSE /\ msgs' = r.msgs
               /\ tasks' = [tasks EXCEPT ![t].pc = "readConversation", ![t].msg = Len(r.msgs)]
               /\ socks' = socks
    /\ UNCHANGED <<convs, connectedUsers, now, last, prev, nops, users, timers, secs>>

\* updateLastMessage: await this.findById(conversationId)
SendReadConversation(t) ==
    /\ tasks[t].pc = "readConversation"
    /\ tasks' = [tasks EXCEPT ![t].pc = "saveConversation",
                              ![t].doc = <<convs[tasks[t].conv]>>]
    /\ UNCHANGED <<convs, msgs, socks, connectedUsers, now, last, prev, nops, users, timers, secs>>

\* updateLastMessage: await conversation.save(); then message:new to the
\* room and message:sent to the sender
SendSaveConversation(t) ==
    /\ tasks[t].pc = "saveConversation"
    /\ LET tk == tasks[t]
           me == tk.sender
           toRoom == EmitTo(socks, InRoom(socks, tk.conv),
                            Event("message:new", tk.conv, tk.msg, 0, ""))
       IN /\ convs' = UlmSave(convs, tk.conv, tk.doc[1], tk.msg, Oid(me))
          /\ socks' = EmitTo(toRoom, {tk.sock},
                             Event("message:sent", tk.conv, tk.msg, tk.clientId, ""))
          /\ tasks' = [tasks EXCEPT ![t].pc = "done", ![t].result = "sent", ![t].doc = <<>>,
                                    ![t].echo = tk.clientId]
    /\ UNCHANGED <<msgs, connectedUsers, now, last, prev, nops, users, timers, secs>>

NoCall == [op |-> "none", sock |-> 0, conv |-> 0, msg |-> 0, user |-> NoUser, who |-> NoUser,
           arg |-> "", err |-> "", emitted |-> 0, before |-> <<>>]

InitStore ==
    /\ convs = <<>>
    /\ msgs = <<>>
    /\ socks = <<>>
    /\ connectedUsers = [u \in Users |-> 0]
    /\ tasks = [t \in TaskIds |-> IdleTask]
    /\ now = 0
    /\ last = NoCall
    /\ prev = NoCall
    /\ nops = 0
    /\ users = [u \in Users |-> [isOnline |-> FALSE, lastSeen |-> 0 - 1]]
    /\ timers = {}
    /\ secs = 0

\* no handler is between two awaits
Quiet == \A t \in TaskIds : tasks[t].pc \in {"idle", "done"}

SendSteps ==
    \/ \E t \in TaskIds : SendLookup(t)
    \/ \E t \in TaskIds : SendCountUsers(t)
    \/ \E t \in TaskIds : SendFindDirect(t)
    \/ \E t \in TaskIds : SendSaveDirect(t)
    \/ \E t \in TaskIds : SendJoinRoom(t)
    \/ \E t \in TaskIds : SendCreateMessage(t)
    \/ \E t \in TaskIds : SendReadConversation(t)
    \/ \E t \in TaskIds : SendSaveConversation(t)

\* connections open and close and message:send events arrive one after
\* the other: each is handled to its end before the next event
NextSeq ==
    \/ \E u \in Clients : Quiet /\ Connect(ValidToken(u))
    \/ \E s \in 1..MaxSockets : Quiet /\ Disconnect(s)
    \/ \E t \in TaskIds, s \in LiveSocks, c \in ConvIds \cup {UnknownId}, p \in Payloads :
          Quiet /\ SendBegin(t, s, c, NoUser, p)
    \/ \E t \in TaskIds, s \in LiveSocks, r \in Clients \cup {NoUser}, p \in Payloads :
          Quiet /\ SendBegin(t, s, 0, r, p)
    \/ SendSteps

SpecSeq == InitStore /\ [][NextSeq]_vars

\* both clients are connected, once each
OnlineUsers(on) ==
    [u \in Users |-> IF u \in on THEN [isOnline |-> TRUE, lastSeen |-> 0]
                     ELSE [isOnline |-> FALSE, lastSeen |-> 0 - 1]]

InitConnected ==
    /\ secs = 0
    /\ convs = <<>>
    /\ msgs = <<>>
    /\ socks = <<NewSocket("a", ValidToken("a")), NewSocket("b", ValidToken("b"))>>
    /\ connectedUsers = [u \in Users |-> IF u = "a" THEN 1 ELSE IF u = "b" THEN 2 ELSE 0]
    /\ tasks = [t \in TaskIds |-> IdleTask]
    /\ now = 0
    /\ last = NoCall
    /\ prev = NoCall
    /\ nops = 0
    /\ users = OnlineUsers({"a", "b"})
    /\ timers = {}

\* media takes the path of text once the content test has passed
RacePayloads == {"empty", "text"}

\* message:send events are handled concurrently
NextRace ==
    \/ \E t \in TaskIds, s \in LiveSocks, c \in ConvIds \cup {UnknownId}, p \in RacePayloads :
          SendBegin(t, s, c, NoUser, p)
    \/ \E t \in TaskIds, s \in LiveSocks, r \in Clients \cup {NoUser}, p \in RacePayloads :
          SendBegin(t, s, 0, r, p)
    \/ SendSteps

SpecRace == InitConnected /\ [][NextRace]_vars

\* one connection issues its message:send events without waiting for the
\* answers
NextPipelined ==
    \/ \E t \in TaskIds, c \in ConvIds \cup {UnknownId}, p \in RacePayloads :
          SendBegin(t, 1, c, NoUser, p)
    \/ \E t \in TaskIds, r \in Clients \cup {NoUser}, p \in RacePayloads :
          SendBegin(t, 1, 0, r, p)
    \/ SendSteps

SpecPipelined == InitConnected /\ [][NextPipelined]_vars

\* every await of a handler resolves
SpecPipelinedFair == SpecPipelined /\ WF_vars(SendSteps)

----------------------------------------------------------------------------
(* Operations called on the models directly.  An atomic action records the *)
(* call in last: what was asked, the error thrown, the events emitted.     *)

Call(op, sock, conv, msg, user, who, arg, err, emitted, before) ==
    [op |-> op, sock |-> sock, conv |-> conv, msg |-> msg, user |-> user, who |-> who,
     arg |-> arg, err |-> err, emitted |-> emitted, before |-> before]

Record(call) ==
    /\ nops < MaxOps
    /\ last' = call
    /\ prev' = last
    /\ nops' = nops + 1

PidLists == {<<"a">>, <<"a", "b">>, <<"a", "b", "c">>, <<"b", "b", "a">>}

\* Conversation.createGroupConversation({participantIds, name, adminId})
CreateGroup(ids, name, adminId) ==
    /\ convs = <<>>
    /\ LET r == createGroupConversation(convs, [i \in 1..Len(ids) |-> Str(ids[i])], name,
                                        Str(adminId))
       IN /\ convs' = r.convs
          /\ Record(Call("createGroup", 0, Len(r.convs), 0, adminId, adminId, name, r.err, 0, <<>>))
    /\ UNCHANGED <<msgs, socks, connectedUsers, tasks, now, users, timers, secs>>

\* sendMessage on a conversation the sender has an entry in: lines 1002-1024,
\* Message.createMessage and then Conversation.updateLastMessage
GroupSend(t, c, u) ==
    /\ tasks[t].pc = "idle"
    /\ \A t2 \in TaskIds : t2 < t => tasks[t2].pc # "idle"
    /\ c \in ConvIds
    /\ FindEntry(convs[c], Oid(u)) # 0
    /\ LET r == createMessage(msgs, c, u, "hello", 0, t)
       IN /\ msgs' = r.msgs
          /\ tasks' = [tasks EXCEPT ![t] = [IdleTask EXCEPT !.pc = "readConversation",
                                               !.sender = u, !.conversationId = c, !.conv = c,
                                               !.payload = "text", !.clientId = t,
                                               !.msg = Len(r.msgs)]]
    /\ UNCHANGED <<convs, socks, connectedUsers, now, last, prev, nops, users, timers, secs>>

\* concurrent sendMessage calls into a group
NextCounters ==
    \/ \E ids \in PidLists, name \in {"", "G"}, adminId \in Users : CreateGroup(ids, name, adminId)
    \/ \E t \in TaskIds, c \in 1..1, u \in Users : GroupSend(t, c, u)
    \/ \E t \in TaskIds : SendReadConversation(t)
    \/ \E t \in TaskIds : SendSaveConversation(t)

SpecCounters == InitStore /\ [][NextCounters]_vars

\* a group is created, then message:send events to it or to a user arrive one
\* after the other
NextGroupSend ==
    \/ \E ids \in PidLists, adminId \in Clients : Quiet /\ CreateGroup(ids, "G", adminId)
    \/ \E t \in TaskIds, s \in LiveSocks, c \in ConvIds :
          Quiet /\ SendBegin(t, s, c, NoUser, "text")
    \/ \E t \in TaskIds, s \in LiveSocks :
          Quiet /\ SendBegin(t, s, 0, "b", "text")
    \/ SendSteps

SpecGroupSend == InitConnected /\ [][NextGroupSend]_vars

----------------------------------------------------------------------------
(* Receipts, read markers and deletion (emailHelper.js 1060-1220) *)

RECURSIVE SumRecv(_)
SumRecv(sk) == IF sk = <<>> THEN 0 ELSE Len(Head(sk).recv) + SumRecv(Tail(sk))

\* the state after the first message:send of a to b, both connected once:
\* the conversation is created, both are in its room, b has one unread
ChatConv ==
    UlmSave(<<NewDirectConversation(<<"a", "b">>)>>, 1, NewDirectConversation(<<"a", "b">>),
            1, Oid("a"))[1]

InitChat ==
    /\ now = 0
    /\ secs = 0
    /\ convs = <<ChatConv>>
    /\ msgs = <<[NewMessage(1, "a", "hello", 0, 1) EXCEPT !.createdAt = 0]>>
    /\ socks = <<[NewSocket("a", ValidToken("a")) EXCEPT
                     !.rooms = {1},
                     !.recv = <<Event("message:new", 1, 1, 0, ""),
                                Event("message:sent", 1, 1, 1, "")>>],
                 [NewSocket("b", ValidToken("b")) EXCEPT
                     !.rooms = {1},
                     !.recv = <<Event("message:new", 1, 1, 0, "")>>]>>
    /\ connectedUsers = [u \in Users |-> IF u = "a" THEN 1 ELSE IF u = "b" THEN 2 ELSE 0]
    /\ tasks = [t \in TaskIds |-> [IdleTask EXCEPT !.pc = "done"]]
    /\ last = NoCall
    /\ prev = NoCall
    /\ nops = 0
    /\ users = OnlineUsers({"a", "b"})
    /\ timers = {}

\* an ObjectId that is the id of user u where a message id is expected
NotAMessage(u) == 0 - Rank(u)

StatusOf(ms, m) == IF m \in 1..Len(ms) THEN <<ms[m].status>> ELSE <<>>

\* emitUnreadCounts and emitTotalUnreadCount: the find({participants: id})
\* of the total matches no conversation, so the total sent is 0
emitUnreadCounts(sk, cs, s, conversationId) ==
    LET one == IF conversationId \in 1..Len(cs)
               THEN EmitTo(sk, {s}, Event("conversation:unread_count", conversationId, 0, 0, ""))
               ELSE sk
    IN EmitTo(one, {s}, Event("conversation:total_unread_count", 0, 0, 0, "0"))

\* socket.on("message:delivered"): an error is logged, nothing is emitted
MessageDelivered(s, m, c) ==
    /\ s \in LiveSocks
    /\ LET u == socks[s].user
           r == updateStatus(msgs, m, "delivered", Oid(u))
           sk == IF r.err = ""
                 THEN EmitTo(socks, InRoom(socks, c) \ {s},
                             Event("message:status", c, m, 0, "delivered"))
                 ELSE socks
       IN /\ msgs' = r.msgs
          /\ socks' = sk
          /\ Record(Call("delivered", s, c, m, u, u, "delivered", r.err,
                         SumRecv(sk) - SumRecv(socks), StatusOf(msgs, m)))
    /\ UNCHANGED <<convs, connectedUsers, tasks, now, users, timers, secs>>

\* socket.on("message:read"): Message.updateStatus, then
\* Conversation.markAsRead(conversationId, "read", socket.user._id)
MessageRead(s, m, c) ==
    /\ s \in LiveSocks
    /\ LET u == socks[s].user
           r1 == updateStatus(msgs, m, "read", Oid(u))
           r2 == markAsRead(convs, c, Str("read"), NotAMessage(u))
           e == IF r1.err # "" THEN r1.err ELSE r2.err
           sk == IF e = ""
                 THEN emitUnreadCounts(
                          EmitTo(socks, InRoom(socks, c) \ {s},
                                 Event("message:status", c, m, 0, "read")),
                          r2.convs, s, c)
                 ELSE socks
       IN /\ msgs' = r1.msgs
          /\ convs' = IF r1.err = "" THEN r2.convs ELSE convs
          /\ socks' = sk
          /\ Record(Call("read", s, c, m, u, u, "read", e,
                         SumRecv(sk) - SumRecv(socks), StatusOf(msgs, m)))
    /\ UNCHANGED <<connectedUsers, tasks, now, users, timers, secs>>

\* socket.on("conversation:mark_read")
MarkRead(s, c) ==
    /\ s \in LiveSocks
    /\ LET u == socks[s].user
           r == markAsRead(convs, c, Oid(u), 0)
           sk == IF r.err = ""
                 THEN emitUnreadCounts(socks, r.convs, s, c)
                 ELSE EmitTo(socks, {s}, Event("conversation:error", c, 0, 0, r.err))
       IN /\ convs' = r.convs
          /\ socks' = sk
          /\ Record(Call("markRead", s, c, 0, u, u, "", r.err,
                         SumRecv(sk) - SumRecv(socks), <<>>))
    /\ UNCHANGED <<msgs, connectedUsers, tasks, now, users, timers, secs>>

NextReceipts ==
    \/ \E s \in 1..2, m \in 1..2, c \in 1..2 : MessageDelivered(s, m, c)
    \/ \E s \in 1..2, m \in 1..2, c \in 1..2 : MessageRead(s, m, c)
    \/ \E s \in 1..2, c \in 1..2 : MarkRead(s, c)

SpecReceipts == InitChat /\ [][NextReceipts]_vars

\* the clock, in minutes
Tick(d) ==
    /\ now + d <= MaxClock
    /\ now' = now + d
    /\ UNCHANGED <<convs, msgs, socks, connectedUsers, tasks, last, prev, nops, users, timers, secs>>

DeletedOf(ms, m) == IF m \in 1..Len(ms) THEN <<ms[m].isDeleted>> ELSE <<>>

AddToSet(seq, x) == IF x \in Range(seq) THEN seq ELSE Append(seq, x)

\* messageAge > timeLimit
TooOld(createdAt) == now - createdAt > DeleteLimitMinutes

\* socket.on("message:delete"); the room of the broadcast is the one the
\* client names in conversationId
MessageDelete(s, m, c, deleteFor) ==
    /\ s \in LiveSocks
    /\ LET u == socks[s].user
           e == IF m \notin 1..Len(msgs) THEN "Message not found"
                ELSE IF msgs[m].sender # u THEN "You can only delete your own messages"
                ELSE IF deleteFor = "everyone" /\ TooOld(msgs[m].createdAt)
                THEN "Messages can only be deleted for everyone within 10 minutes"
                ELSE ""
           sk == IF e # "" THEN EmitTo(socks, {s}, Event("message:error", 0, 0, 0, e))
                 ELSE IF deleteFor = "everyone"
                 THEN EmitTo(socks, InRoom(socks, c), Event("message:deleted", c, m, 0, "everyone"))
                 ELSE EmitTo(socks, {s}, Event("message:deleted", c, m, 0, "me"))
       IN /\ msgs' = IF e # "" THEN msgs
                     ELSE IF deleteFor = "everyone" THEN [msgs EXCEPT ![m].isDeleted = TRUE]
                     ELSE [msgs EXCEPT ![m].deletedFor = AddToSet(@, u)]
          /\ socks' = sk
          /\ Record(Call("message:delete", s, c, m, u, u, deleteFor, e,
                         SumRecv(sk) - SumRecv(socks), DeletedOf(msgs, m)))
    /\ UNCHANGED <<convs, connectedUsers, tasks, now, users, timers, secs>>

\* Message.deleteMessage(messageId, userId, forEveryone)
deleteMessage(ms, messageId, userId, forEveryone) ==
    IF messageId \notin 1..Len(ms)
    THEN [err |-> "Message not found", msgs |-> ms]
    ELSE IF forEveryone
    THEN IF ~StrictEq(ToStr(Oid(ms[messageId].sender)), userId)
         THEN [err |-> "Only sender can delete for everyone", msgs |-> ms]
         ELSE [err |-> "", msgs |-> [ms EXCEPT ![messageId].isDeleted = TRUE]]
    ELSE [err |-> "", msgs |-> [ms EXCEPT ![messageId].deletedFor = AddToSet(@, userId[2])]]

\* message.reactions.filter(reaction => reaction.user.toString() !== userId)
OtherReactions(reactions, userId) ==
    SelectSeq(reactions, LAMBDA r : ~StrictEq(ToStr(Oid(r.user)), userId))

\* Message.addReaction(messageId, userId, emoji)
addReaction(ms, messageId, userId, emoji) ==
    IF messageId \notin 1..Len(ms)
    THEN [err |-> "Message not found", msgs |-> ms]
    ELSE [err |-> "",
          msgs |-> [ms EXCEPT ![messageId].reactions =
                       Append(OtherReactions(@, userId),
                              [user |-> userId[2], emoji |-> emoji])]]

\* Message.removeReaction(messageId, userId)
removeReaction(ms, messageId, userId) ==
    IF messageId \notin 1..Len(ms)
    THEN [err |-> "Message not found", msgs |-> ms]
    ELSE [err |-> "",
          msgs |-> [ms EXCEPT ![messageId].reactions = OtherReactions(@, userId)]]

ReactionsOf(ms, m) == IF m \in 1..Len(ms) THEN <<ms[m].reactions>> ELSE <<>>

AddReaction(m, userId, emoji) ==
    /\ LET r == addReaction(msgs, m, userId, emoji)
       IN /\ msgs' = r.msgs
          /\ Record(Call("addReaction", 0, 0, m, userId[2], userId[2], emoji, r.err, 0,
                         ReactionsOf(msgs, m)))
    /\ UNCHANGED <<convs, socks, connectedUsers, tasks, now, users, timers, secs>>

RemoveReaction(m, userId) ==
    /\ LET r == removeReaction(msgs, m, userId)
       IN /\ msgs' = r.msgs
          /\ Record(Call("removeReaction", 0, 0, m, userId[2], userId[2], "", r.err, 0,
                         ReactionsOf(msgs, m)))
    /\ UNCHANGED <<convs, socks, connectedUsers, tasks, now, users, timers, secs>>

Emojis == {"thumbsup", "heart"}

\* reactions are set and taken back on the first message of the chat, with the
\* user's id given as a string or as the ObjectId a handler holds
NextReactions ==
    \/ \E m \in 1..2, tag \in {"str", "oid"}, u \in Clients, e \in Emojis :
          AddReaction(m, Tagged(tag, u), e)
    \/ \E m \in 1..2, tag \in {"str", "oid"}, u \in Clients :
          RemoveReaction(m, Tagged(tag, u))

SpecReactions == InitChat /\ [][NextReactions]_vars

DeleteMessageStatic(m, userId, forEveryone) ==
    /\ LET r == deleteMessage(msgs, m, userId, forEveryone)
       IN /\ msgs' = r.msgs
          /\ Record(Call("deleteMessage", 0, 0, m, userId[2], userId[2],
                         IF forEveryone THEN "everyone" ELSE "me", r.err, 0,
                         DeletedOf(msgs, m)))
    /\ UNCHANGED <<convs, socks, connectedUsers, tasks, now, users, timers, secs>>

NextDelete ==
    \/ \E d \in {5, 6} : Tick(d)
    \/ \E s \in 1..2, m \in 1..2, c \in 1..2, f \in {"me", "everyone"} : MessageDelete(s, m, c, f)
    \/ \E m \in 1..2, u \in Clients, f \in BOOLEAN : DeleteMessageStatic(m, Str(u), f)

SpecDelete == InitChat /\ [][NextDelete]_vars

\* const fifteenMinutesAgo = new Date(Date.now() - 15 * 60 * 1000)
EditLimitMinutes == 15

\* Message.editMessage(messageId, userId, newContent, newMedia)
editMessage(ms, messageId, userId, newContent, newMedia) ==
    IF messageId \notin 1..Len(ms)
    THEN [err |-> "Message not found", msgs |-> ms]
    ELSE IF ~StrictEq(ToStr(Oid(ms[messageId].sender)), userId)
    THEN [err |-> "Only sender can edit the message", msgs |-> ms]
    ELSE IF now - ms[messageId].createdAt > EditLimitMinutes
    THEN [err |-> "Message is too old to edit", msgs |-> ms]
    ELSE [err |-> "",
          msgs |-> [ms EXCEPT ![messageId].editHistory =
                                  Append(@, [content |-> ms[messageId].content,
                                             media |-> ms[messageId].media]),
                              ![messageId].content = newContent,
                              ![messageId].media = newMedia]]

\* Message.togglePin(messageId, userId, conversationId)
togglePin(ms, messageId, userId) ==
    IF messageId \notin 1..Len(ms)
    THEN [err |-> "Message not found", msgs |-> ms]
    ELSE [err |-> "",
          msgs |-> [ms EXCEPT ![messageId].isPinned = ~@,
                              ![messageId].pinnedBy =
                                  IF ms[messageId].isPinned THEN NoUser ELSE userId[2]]]

MessageOf(ms, m) == IF m \in 1..Len(ms) THEN <<ms[m]>> ELSE <<>>

EditMessage(m, userId, newContent, newMedia) ==
    /\ LET r == editMessage(msgs, m, userId, newContent, newMedia)
       IN /\ msgs' = r.msgs
          /\ Record(Call("editMessage", 0, 0, m, userId[2], userId[2], newContent, r.err, 0,
                         MessageOf(msgs, m)))
    /\ UNCHANGED <<convs, socks, connectedUsers, tasks, now, users, timers, secs>>

TogglePin(m, userId) ==
    /\ LET r == togglePin(msgs, m, userId)
       IN /\ msgs' = r.msgs
          /\ Record(Call("togglePin", 0, 0, m, userId[2], userId[2], "", r.err, 0,
                         MessageOf(msgs, m)))
    /\ UNCHANGED <<convs, socks, connectedUsers, tasks, now, users, timers, secs>>

\* the first message of the chat is deleted through the model, edited, pinned
\* and reacted to while the clock passes the edit limit
NextEdit ==
    \/ \E d \in {8} : Tick(d)
    \/ \E m \in 1..2, u \in Clients, f \in BOOLEAN : DeleteMessageStatic(m, Str(u), f)
    \/ \E m \in 1..2, tag \in {"str", "oid"}, u \in Clients :
          EditMessage(m, Tagged(tag, u), "edited", 0)
    \/ \E m \in 1..2, u \in Clients : TogglePin(m, Str(u))
    \/ \E m \in 1..2 : AddReaction(m, Str("b"), "heart")

SpecEdit == InitChat /\ [][NextEdit]_vars

----------------------------------------------------------------------------
(* Group membership (part_002 removeParticipant, emailHelper.js leave_group) *)

ConvOf(cs, c) == IF c \in 1..Len(cs) THEN <<cs[c]>> ELSE <<>>

\* Conversation.removeParticipant(conversationId, participantId, removedBy)
RemoveParticipant(c, participantId, removedBy) ==
    /\ LET r == removeParticipant(convs, c, participantId, removedBy)
       IN /\ convs' = r.convs
          /\ Record(Call("removeParticipant", 0, c, 0, removedBy[2], participantId[2],
                         removedBy[1], r.err, 0, ConvOf(convs, c)))
    /\ UNCHANGED <<msgs, socks, connectedUsers, tasks, now, users, timers, secs>>

\* socket.on("conversation:leave_group"): the documents of this schema have
\* no admins path, so conversation.admins.length throws and the catch
\* reports it; nothing is written
LeaveGroup(s, c) ==
    /\ s \in LiveSocks
    /\ LET e == IF c \notin ConvIds \/ convs[c].type # "group"
                THEN "Group conversation not found"
                ELSE "TypeError: Cannot read properties of undefined (reading 'length')"
           sk == EmitTo(socks, {s}, Event("conversation:error", c, 0, 0, e))
       IN /\ socks' = sk
          /\ Record(Call("leaveGroup", s, c, 0, socks[s].user, socks[s].user, "", e,
                         SumRecv(sk) - SumRecv(socks), ConvOf(convs, c)))
    /\ UNCHANGED <<convs, msgs, connectedUsers, tasks, now, users, timers, secs>>

\* a remove_member whose $pull takes the member's entry out of the list
RemoveMemberPulling(s, c, memberId) ==
    /\ s \in LiveSocks
    /\ LET e == IF c \notin ConvIds \/ convs[c].type # "group"
                THEN "Group conversation not found"
                ELSE ""
           sk == IF e = "" THEN socks
                 ELSE EmitTo(socks, {s}, Event("conversation:error", c, 0, 0, e))
       IN /\ socks' = sk
          /\ convs' = IF e # "" THEN convs
                      ELSE [convs EXCEPT ![c].participants =
                               SelectSeq(convs[c].participants, LAMBDA q : q.user # memberId)]
          /\ Record(Call("removeMember", s, c, 0, socks[s].user, memberId, "", e,
                         SumRecv(sk) - SumRecv(socks), ConvOf(convs, c)))
    /\ UNCHANGED <<msgs, connectedUsers, tasks, now, users, timers, secs>>

\* socket.on("conversation:remove_member"): conversation.admins is undefined
\* on the documents of this schema, so conversation.admins.includes throws
\* and the catch reports it; nothing is written
RemoveMember(s, c, memberId) ==
    /\ s \in LiveSocks
    /\ LET e == IF c \notin ConvIds \/ convs[c].type # "group"
                THEN "Group conversation not found"
                ELSE "TypeError: Cannot read properties of undefined (reading 'includes')"
           sk == EmitTo(socks, {s}, Event("conversation:error", c, 0, 0, e))
       IN /\ socks' = sk
          /\ convs' = convs
          /\ Record(Call("removeMember", s, c, 0, socks[s].user, memberId, "", e,
                         SumRecv(sk) - SumRecv(socks), ConvOf(convs, c)))
    /\ UNCHANGED <<msgs, connectedUsers, tasks, now, users, timers, secs>>

\* a group is created; members leave or are removed, through the static
\* and through the two socket events
NextLeave ==
    \/ \E ids \in {<<"a", "b">>, <<"a", "b", "c">>} : CreateGroup(ids, "G", "a")
    \/ \E c \in 1..1, p \in Users, by \in Users : RemoveParticipant(c, Str(p), Str(by))
    \/ \E s \in 1..2, c \in 1..1 : LeaveGroup(s, c)
    \/ \E s \in 1..2, c \in 1..1, m \in {"b", "c"} : RemoveMember(s, c, m)

SpecLeave == InitConnected /\ [][NextLeave]_vars

NextGroup ==
    \/ \E ids \in PidLists, name \in {"", "G"}, adminId \in Users : CreateGroup(ids, name, adminId)
    \/ \E c \in 1..2, tag \in {"str", "oid"}, p \in Users, by \in Users :
          RemoveParticipant(c, Tagged(tag, p), Tagged(tag, by))
    \/ \E s \in 1..2, c \in 1..2 : LeaveGroup(s, c)

SpecGroup == InitConnected /\ [][NextGroup]_vars

\* the state of InitChat with no message:send event received yet
InitMember ==
    /\ now = 0
    /\ secs = 0
    /\ convs = <<ChatConv>>
    /\ msgs = <<[NewMessage(1, "a", "hello", 0, 1) EXCEPT !.createdAt = 0]>>
    /\ socks = <<[NewSocket("a", ValidToken("a")) EXCEPT !.rooms = {1}],
                 [NewSocket("b", ValidToken("b")) EXCEPT !.rooms = {1}]>>
    /\ connectedUsers = [u \in Users |-> IF u = "a" THEN 1 ELSE IF u = "b" THEN 2 ELSE 0]
    /\ tasks = [t \in TaskIds |-> IdleTask]
    /\ last = NoCall
    /\ prev = NoCall
    /\ nops = 0
    /\ users = OnlineUsers({"a", "b"})
    /\ timers = {}

\* participants of conversation 1 are removed through the model's static,
\* user c connects, and message:send events to conversation 1 or to user a
\* arrive one after the other
NextMember ==
    \/ \E tag \in {"str", "oid"}, p \in Clients, by \in Clients :
          Quiet /\ RemoveParticipant(1, Tagged(tag, p), Tagged(tag, by))
    \/ Quiet /\ Connect(ValidToken("c"))
    \/ \E t \in TaskIds, s \in LiveSocks :
          Quiet /\ SendBegin(t, s, 1, NoUser, "text")
    \/ \E t \in TaskIds, s \in LiveSocks :
          Quiet /\ SendBegin(t, s, 0, "a", "text")
    \/ SendSteps

SpecMember == InitMember /\ [][NextMember]_vars

----------------------------------------------------------------------------
(* Membership through the Conversation statics (part_002 560-779,          *)
(* 972-1050), each call handled to its end                                 *)

\* Conversation.findOrCreateDirectConversation([x, y])
FindOrCreateDirect(x, y) ==
    /\ LET r == findOrCreateDirectConversation(convs, <<Str(x), Str(y)>>)
       IN /\ convs' = r.convs
          /\ Record(Call("findOrCreateDirect", 0, FindDirect(r.convs, SortPair(x, y)), 0,
                         x, y, "", r.err, 0, <<>>))
    /\ UNCHANGED <<msgs, socks, connectedUsers, tasks, now, users, timers, secs>>

\* Conversation.addParticipants(c, ids, addedBy)
AddParticipants(c, ids, addedBy) ==
    /\ LET r == addParticipants(convs, c, [i \in 1..Len(ids) |-> Str(ids[i])], Str(addedBy))
       IN /\ convs' = r.convs
          /\ Record(Call("addParticipants", 0, c, 0, addedBy, ids[1], "", r.err, 0,
                         ConvOf(convs, c)))
    /\ UNCHANGED <<msgs, socks, connectedUsers, tasks, now, users, timers, secs>>

\* Conversation.joinByInviteLink(code, u); the call record keeps the code in
\* its msg field and the conversation the code resolved to
JoinByInviteLink(code, u) ==
    /\ LET r == joinByInviteLink(convs, code, Str(u))
           found == FindByInvite(convs, code)
       IN /\ convs' = r.convs
          /\ Record(Call("joinByInviteLink", 0, found, code, u, u, "", r.err, 0,
                         ConvOf(convs, found)))
    /\ UNCHANGED <<msgs, socks, connectedUsers, tasks, now, users, timers, secs>>

\* Conversation.updateParticipantPermissions(c, p, permissions, updatedBy)
UpdateParticipantPermissions(c, participantId, permissions, updatedBy) ==
    /\ LET r == updateParticipantPermissions(convs, c, Str(participantId), permissions,
                                             Str(updatedBy))
       IN /\ convs' = r.convs
          /\ Record(Call("updateParticipantPermissions", 0, c, 0, updatedBy, participantId,
                         "", r.err, 0, ConvOf(convs, c)))
    /\ UNCHANGED <<msgs, socks, connectedUsers, tasks, now, users, timers, secs>>

\* conversation.generateInviteLink(createdBy, expiresInDays, maxUses) on a
\* group, then conversation.save()
GenerateInviteLink(c, createdBy, expiresInDays, maxUses) ==
    /\ c \in ConvIds
    /\ convs[c].type = "group"
    /\ convs' = [convs EXCEPT ![c] = generateInviteLink(convs[c], FreshCode(convs),
                                                        expiresInDays, maxUses)]
    /\ Record(Call("generateInviteLink", 0, c, maxUses, createdBy, createdBy, "", "", 0,
                   ConvOf(convs, c)))
    /\ UNCHANGED <<msgs, socks, connectedUsers, tasks, now, users, timers, secs>>

\* Conversation.markAsRead(c, u)
MarkAsRead(c, u) ==
    /\ LET r == markAsRead(convs, c, Str(u), 0)
       IN /\ convs' = r.convs
          /\ Record(Call("markAsRead", 0, c, 0, u, u, "", r.err, 0, ConvOf(convs, c)))
    /\ UNCHANGED <<msgs, socks, connectedUsers, tasks, now, users, timers, secs>>

\* the permission an admin hands to a member
Grant == [canRemoveMembers |-> TRUE]

\* the codes of the stored invite links
StoredCodes == {convs[c].inviteLink.code : c \in ConvIds} \ {0}

\* calls of the statics and sendMessage, one after the other
NextMembership ==
    \/ \E ids \in {<<"a", "b">>, <<"a", "b", "c">>} : Quiet /\ CreateGroup(ids, "G", "a")
    \/ Quiet /\ FindOrCreateDirect("a", "b")
    \/ \E c \in ConvIds, by \in {"a", "b"} : Quiet /\ AddParticipants(c, <<"b", "c">>, by)
    \/ \E code \in {UnknownCode} \cup StoredCodes, u \in {"b", "c"} :
          Quiet /\ JoinByInviteLink(code, u)
    \/ \E c \in ConvIds, p \in {"a", "c"}, by \in {"b", "c"} :
          Quiet /\ RemoveParticipant(c, Str(p), Str(by))
    \/ \E c \in ConvIds, by \in {"a", "b"} :
          Quiet /\ UpdateParticipantPermissions(c, "b", Grant, by)
    \/ \E c \in ConvIds, lk \in {<<0, 0>>, <<InviteDays, 1>>} :
          Quiet /\ GenerateInviteLink(c, "a", lk[1], lk[2])
    \/ \E c \in ConvIds : Quiet /\ MarkAsRead(c, "c")
    \/ \E t \in TaskIds, c \in ConvIds : Quiet /\ GroupSend(t, c, "a")
    \/ \E t \in TaskIds : SendReadConversation(t)
    \/ \E t \in TaskIds : SendSaveConversation(t)

SpecMembership == InitStore /\ [][NextMembership]_vars

----------------------------------------------------------------------------
(* Presence: handshake, connectedUsers and the disconnect timer            *)
(* (emailHelper.js 336-374, 1356-1396)                                     *)

Tokens == {NoToken, ForgedToken("a"), ValidToken("a"), ValidToken("b"), ValidToken(Ghost)}

\* time passes; a timer runs when it is due
Pass(d) ==
    /\ secs + d <= MaxSeconds
    /\ \A tm \in timers : secs + d <= tm.due
    /\ secs' = secs + d
    /\ UNCHANGED <<convs, msgs, socks, connectedUsers, tasks, now, last, prev, nops, users,
                   timers>>

\* the callback of setTimeout(..., 5000) in the disconnect handler
GraceTimer(tm) ==
    /\ tm \in timers
    /\ tm.due <= secs
    /\ timers' = timers \ {tm}
    /\ users' = IF connectedUsers[tm.user] = 0
                THEN updateUserOnlineStatus(users, tm.user, FALSE)
                ELSE users
    /\ Record(Call("graceTimer", tm.sock, 0, 0, tm.user, tm.user,
                   IF connectedUsers[tm.user] = 0 THEN "offline" ELSE "noop", "", 0, <<>>))
    /\ UNCHANGED <<convs, msgs, socks, connectedUsers, tasks, now, secs>>

NextPresence ==
    \/ \E token \in Tokens : Connect(token)
    \/ \E s \in 1..MaxSockets : Disconnect(s)
    \/ \E d \in {2, 3} : Pass(d)
    \/ \E tm \in timers : GraceTimer(tm)

SpecPresence == InitStore /\ [][NextPresence]_vars

\* handshakes in the name of user a with any token, closes, and message:send
\* events to user b written to any connection, handled one after the other
NextAuth ==
    \/ \E token \in Tokens \ {ValidToken("b")} : Quiet /\ Connect(token)
    \/ \E s \in 1..MaxSockets : Quiet /\ Disconnect(s)
    \/ \E t \in TaskIds, s \in 1..Len(socks) :
          Quiet /\ SendBegin(t, s, 0, "b", "text")
    \/ SendSteps

SpecAuth == InitStore /\ [][NextAuth]_vars

----------------------------------------------------------------------------
(* Claims *)


\* C1: in no reachable state do two non-deleted direct conversations exist
\* for the same unordered pair of users, whatever the interleaving of the
\* find-or-create calls.
C1_OneDirectConversationPerPair ==
    \A i, j \in ConvIds :
        (/\ i # j
         /\ convs[i].type = "individual" /\ convs[j].type = "individual"
         /\ ~convs[i].isDeleted /\ ~convs[j].isDeleted)
        => UsersOf(convs[i]) # UsersOf(convs[j])

DistinctSenders ==
    \A t1, t2 \in TaskIds :
        (t1 # t2 /\ tasks[t1].pc # "idle" /\ tasks[t2].pc # "idle")
        => tasks[t1].sender # tasks[t2].sender

SentByOthers(c, u) == Cardinality({m \in MsgIds : msgs[m].conversation = c /\ msgs[m].sender # u})

OneEntryPerUser(c) ==
    \A i, j \in 1..Len(c.participants) :
        c.participants[i].user = c.participants[j].user => i = j

\* C2: once concurrent sendMessage calls by distinct senders have all
\* returned, the unread count of every active participant (of a conversation
\* that lists each user once) equals the number of messages the others sent
\* into the conversation.
C2_UnreadCountsExact ==
    (DistinctSenders /\ \A t \in TaskIds : tasks[t].pc \in {"idle", "done"})
    => \A c \in ConvIds : \A i \in activeParticipants(convs[c]) :
          OneEntryPerUser(convs[c]) =>
          getUnreadCount(convs[c], convs[c].participants[i].user)
              = SentByOthers(c, convs[c].participants[i].user)

\* two conversation:mark_read in succession, same connection and conversation
TwiceMarkRead ==
    /\ last.op = "markRead" /\ prev.op = "markRead"
    /\ last.sock = prev.sock /\ last.conv = prev.conv
    /\ last.err = "" /\ prev.err = ""

\* C3: a second conversation:mark_read in succession leaves the user's
\* unread count at zero and emits no event.
C3_MarkReadIdempotent ==
    TwiceMarkRead =>
        /\ getUnreadCount(convs[last.conv], last.user) = 0
        /\ last.emitted = 0

\* the same delivered or read signal handled twice in succession
TwiceSameStatus ==
    /\ last.op \in {"delivered", "read"} /\ prev.op = last.op
    /\ last.msg = prev.msg /\ last.user = prev.user
    /\ last.err = "" /\ prev.err = ""

Entries(list, u) == Cardinality({i \in 1..Len(list) : list[i] = u})

\* C4: after the same (messageId, userId, status) has been applied twice the
\* user has exactly one entry in deliveredTo (status delivered) or readBy
\* (status read).
C4_OneReceiptEntry ==
    TwiceSameStatus =>
        Entries(IF last.op = "delivered" THEN msgs[last.msg].deliveredTo
                ELSE msgs[last.msg].readBy, last.user) = 1

StatusRank(st) == CASE st = "sending" -> 0 [] st = "sent" -> 1 [] st = "delivered" -> 2
                    [] st = "read" -> 3 [] OTHER -> 0 - 1

\* C5: a delivered or read signal never leaves the message with a status
\* below the one it had before the signal.
C5_StatusNeverRegresses ==
    (last.op \in {"delivered", "read"} /\ last.before # <<>>)
    => StatusRank(msgs[last.msg].status) >= StatusRank(last.before[1])

\* the user removed by a successful removeParticipant or leave_group was the
\* only active admin of the group
SoleAdminRemoved ==
    /\ last.op \in {"removeParticipant", "leaveGroup"}
    /\ last.err = ""
    /\ last.before # <<>>
    /\ last.before[1].type = "group"
    /\ AdminUsers(last.before[1]) = {last.who}

\* C6: after the sole admin of a group has been removed, the group has
\* exactly one active admin if other active participants remain, and is
\* deleted if none remain.
C6_SoleAdminRemoval ==
    SoleAdminRemoved =>
        IF ActiveUsers(last.before[1]) \ {last.who} # {}
        THEN Cardinality(AdminUsers(convs[last.conv])) = 1
        ELSE convs[last.conv].isDeleted

Received(s, ev, m) == \E k \in 1..Len(socks[s].recv) :
                          socks[s].recv[k].ev = ev /\ socks[s].recv[k].msg = m

\* a message:send by recipientId with text, to another existing user with
\* whom the sender had no conversation, handled with no later send begun
FirstDirectSend(t) ==
    /\ tasks[t].pc = "done"
    /\ tasks[t].sock # 0
    /\ tasks[t].recipientId \in Users \ {tasks[t].sender}
    /\ tasks[t].conversationId = 0
    /\ tasks[t].payload = "text"
    /\ tasks[t].fresh
    /\ \A t2 \in TaskIds : t2 > t => tasks[t2].pc = "idle"

\* C7: a first message from A to B by recipientId creates the direct
\* conversation of A and B, raises B's unread count in it to 1, acknowledges
\* A with message:sent carrying the clientId and, when B has a connection
\* that is open throughout, delivers message:new to B.
C7_FirstDirectSend ==
    \A t \in TaskIds :
        FirstDirectSend(t) =>
            LET tk == tasks[t] IN
            /\ tk.result = "sent"
            /\ tk.created # 0 /\ tk.created = tk.conv
            /\ UsersOf(convs[tk.conv]) = {tk.sender, tk.recipientId}
            /\ getUnreadCount(convs[tk.conv], tk.recipientId) = 1
            /\ \E k \in 1..Len(socks[tk.sock].recv) :
                  /\ socks[tk.sock].recv[k].ev = "message:sent"
                  /\ socks[tk.sock].recv[k].clientId = tk.clientId
            /\ (\E s \in 1..tk.socksAtBegin :
                    socks[s].user = tk.recipientId /\ socks[s].live)
               => \E s \in 1..Len(socks) :
                     socks[s].user = tk.recipientId /\ Received(s, "message:new", tk.msg)

\* a handled message:send with empty content and no media, addressed by
\* conversationId or by recipientId
EmptySend(t) ==
    /\ tasks[t].pc = "done"
    /\ tasks[t].payload = "empty"
    /\ (tasks[t].conversationId # 0 \/ tasks[t].recipientId # NoUser)

\* C8: a message:send with empty content and no media is answered with the
\* validation error event and has created neither a conversation nor a
\* message, whether addressed by conversationId or by recipientId.
C8_EmptySendRejected ==
    \A t \in TaskIds :
        EmptySend(t) =>
            /\ tasks[t].result = "error"
            /\ tasks[t].err = "Message must have content or media"
            /\ tasks[t].echo = tasks[t].clientId
            /\ tasks[t].created = 0
            /\ tasks[t].msg = 0
            /\ \A m \in MsgIds : msgs[m].clientId # tasks[t].clientId
            /\ \E k \in 1..Len(socks[tasks[t].sock].recv) :
                  /\ socks[tasks[t].sock].recv[k].ev = "message:error"
                  /\ socks[tasks[t].sock].recv[k].clientId = tasks[t].clientId

\* an empty send addressed to an existing conversation has been handled
C8_Witness ==
    \E t \in TaskIds : EmptySend(t) /\ tasks[t].conversationId \in ConvIds

\* a removeParticipant call by an active member who is no admin and has no
\* canRemoveMembers permission, aimed at another member of the conversation
NonAdminRemoval ==
    /\ last.op = "removeParticipant"
    /\ last.before # <<>>
    /\ last.user \in ActiveUsers(last.before[1]) \ AdminUsers(last.before[1])
    /\ \A i \in 1..Len(last.before[1].participants) :
          last.before[1].participants[i].user = last.user
          => ~last.before[1].participants[i].permissions.canRemoveMembers
    /\ last.who # last.user
    /\ last.who \in UsersOf(last.before[1])

\* C9: removeParticipant called by a non-admin member without
\* canRemoveMembers on another member fails with the permission error and
\* leaves the participant list, every isActive flag included, as it was.
C9_NonAdminCannotRemove ==
    NonAdminRemoval =>
        /\ last.err = "You do not have permission to remove participants"
        /\ convs[last.conv].participants = last.before[1].participants

C9_Witness == NonAdminRemoval /\ last.who \in ActiveUsers(last.before[1])

\* a delete for everyone of a message that exists and is not yet deleted
DeleteForEveryone ==
    /\ last.op \in {"message:delete", "deleteMessage"}
    /\ last.arg = "everyone"
    /\ last.before = <<FALSE>>

\* C10: deleting for everyone fails and leaves isDeleted false when the
\* caller is not the sender or the message is older than 10 minutes;
\* otherwise it succeeds, sets isDeleted and, through the socket handler,
\* delivers message:deleted to every connected participant.
C10_DeleteForEveryoneWindow ==
    DeleteForEveryone =>
        LET m == msgs[last.msg] IN
        IF last.user # m.sender \/ now - m.createdAt > DeleteLimitMinutes
        THEN last.err # "" /\ ~m.isDeleted
        ELSE /\ last.err = ""
             /\ m.isDeleted
             /\ (last.op = "message:delete" /\ last.conv = m.conversation)
                => \A s \in LiveSocks :
                      socks[s].user \in UsersOf(convs[m.conversation])
                      => \E k \in 1..Len(socks[s].recv) :
                            socks[s].recv[k] =
                                Event("message:deleted", last.conv, last.msg, 0, "everyone")

\* the message:sent and message:error events with the clientId of the
\* request that the sending connection has received
Acks(t) ==
    Cardinality({k \in 1..Len(socks[tasks[t].sock].recv) :
                    /\ socks[tasks[t].sock].recv[k].ev \in {"message:sent", "message:error"}
                    /\ socks[tasks[t].sock].recv[k].clientId = tasks[t].clientId})

OneAckWhenDone ==
    \A t \in TaskIds :
        /\ (tasks[t].pc = "done" /\ tasks[t].sock # 0) => Acks(t) = 1
        /\ (tasks[t].pc \notin {"idle", "done"} /\ tasks[t].sock # 0) => Acks(t) = 0

\* C11: every message:send is answered: its handler ends, and when it has
\* ended the sending connection has received exactly one message:sent or
\* message:error carrying the clientId of the request, and none before.
C11_ExactlyOneAck ==
    /\ []OneAckWhenDone
    /\ \A t \in TaskIds : (tasks[t].pc \notin {"idle", "done"}) ~> (tasks[t].pc = "done")

C11_Witness ==
    \E t1, t2 \in TaskIds :
        /\ tasks[t1].pc = "done" /\ tasks[t1].result = "sent" /\ Acks(t1) = 1
        /\ tasks[t2].pc = "done" /\ tasks[t2].result = "error" /\ Acks(t2) = 1

MsgsIn(c) == {m \in MsgIds : msgs[m].conversation = c}

\* C12: once every message:send handler has finished, each conversation's
\* counters account for exactly the message documents stored for it:
\* stats.totalMessages is their number, lastMessage is one of them and every
\* active participant's unread count is the number of messages of the others.
C12_NoPartialSend ==
    Quiet =>
        \A c \in ConvIds :
            /\ convs[c].totalMessages = Cardinality(MsgsIn(c))
            /\ MsgsIn(c) # {} => convs[c].lastMessage \in MsgsIn(c)
            /\ \A i \in activeParticipants(convs[c]) :
                  getUnreadCount(convs[c], convs[c].participants[i].user)
                      = SentByOthers(c, convs[c].participants[i].user)

\* C13: a message:delivered or message:read event that fails is answered
\* with exactly one error event; it is never dropped without an event.
C13_FailedReceiptAnswered ==
    (last.op \in {"delivered", "read"} /\ last.err # "") => last.emitted = 1

\* connectedUsers.has(userId)
isOnline(u) == connectedUsers[u] # 0

\* C14: a user is in the presence registry exactly when at least one of the
\* user's connections is open.
C14_RegistryTracksConnections ==
    \A u \in Users : isOnline(u) <=> \E s \in LiveSocks : socks[s].user = u

\* the timer of a closed connection has run although a connection of the
\* same user registered after the close and before the timer was due
TimerAfterReconnect ==
    /\ last.op = "graceTimer"
    /\ \E s \in 1..Len(socks) :
          /\ socks[s].user = last.user
          /\ socks[s].openedAt > socks[last.sock].closedAt
          /\ socks[s].openedAt < socks[last.sock].closedAt + GraceSeconds

\* C15: the timer of a close that was followed by a new connection of the
\* user within the grace period persists no offline transition.
C15_ReconnectDisarmsTimer ==
    TimerAfterReconnect => last.arg = "noop"

\* C16: a user stored as offline has no open connection, and was stored so
\* no earlier than the grace period after each of the user's connections
\* closed.
C16_OfflineOnlyAfterGrace ==
    \A u \in Users :
        (~users[u].isOnline /\ users[u].lastSeen >= 0)
        => \A s \in 1..Len(socks) :
              socks[s].user = u
              => /\ ~socks[s].live
                 /\ socks[s].closedAt + GraceSeconds <= users[u].lastSeen

\* two sends of one connection into one conversation, received by the
\* server in the order t1, t2, both acknowledged
SentInOrder(t1, t2) ==
    /\ t1 < t2
    /\ tasks[t1].pc = "done" /\ tasks[t1].result = "sent"
    /\ tasks[t2].pc = "done" /\ tasks[t2].result = "sent"
    /\ tasks[t1].sock = tasks[t2].sock /\ tasks[t1].sock # 0
    /\ tasks[t1].conv = tasks[t2].conv

\* C17: the message:new events of two sends issued in order by one
\* connection into one conversation arrive at every connection in that order.
C17_BroadcastInSendOrder ==
    \A t1, t2 \in TaskIds :
        SentInOrder(t1, t2) =>
            \A s \in 1..Len(socks) : \A k1, k2 \in 1..Len(socks[s].recv) :
                (/\ socks[s].recv[k1].ev = "message:new"
                 /\ socks[s].recv[k1].msg = tasks[t1].msg
                 /\ socks[s].recv[k2].ev = "message:new"
                 /\ socks[s].recv[k2].msg = tasks[t2].msg)
                => k1 < k2

\* a message:send that was acknowledged, with no connection opened or
\* closed and no later send begun since it was received
Broadcast(t) ==
    /\ tasks[t].pc = "done"
    /\ tasks[t].result = "sent"
    /\ tasks[t].sock # 0
    /\ tasks[t].socksAtBegin = Len(socks)
    /\ \A t2 \in TaskIds : t2 > t => tasks[t2].pc = "idle"

\* C18: the message:new of a send has reached every open connection of
\* every active participant of the conversation (the sending connection
\* aside, which is answered with message:sent) and no connection of anyone
\* else.
C18_BroadcastReachesParticipants ==
    \A t \in TaskIds :
        Broadcast(t) =>
            \A s \in 1..Len(socks) \ {tasks[t].sock} :
                /\ (socks[s].live /\ socks[s].user \in ActiveUsers(convs[tasks[t].conv]))
                   => Received(s, "message:new", tasks[t].msg)
                /\ socks[s].user \notin ActiveUsers(convs[tasks[t].conv])
                   => ~Received(s, "message:new", tasks[t].msg)

\* the handshake of connection s carried no token, a token that does not
\* verify, or the token of a user that does not exist
FailedAuth(s) ==
    \/ socks[s].token.kind # "valid"
    \/ socks[s].token.user \notin Users

\* C19: a connection whose authentication failed is closed from the start,
\* has received only the connection error, is not in the presence registry,
\* is in no room, has armed no grace timer, and no message:send handler ever
\* ran for it.
C19_FailedAuthClosed ==
    \A s \in 1..Len(socks) :
        FailedAuth(s) =>
            /\ ~socks[s].live
            /\ socks[s].closedAt = socks[s].openedAt
            /\ socks[s].rooms = {}
            /\ Len(socks[s].recv) = 1
            /\ socks[s].recv[1].ev = "connect_error"
            /\ \A u \in Users : connectedUsers[u] # s
            /\ \A tm \in timers : tm.sock # s
            /\ \A t \in TaskIds : tasks[t].sock # s

\* a handshake with a forged token of user a was refused, and user a, on a
\* connection of their own, has sent a message since
C19_Witness ==
    \E s \in 1..Len(socks) :
        /\ socks[s].token = ForgedToken("a")
        /\ ~socks[s].live
        /\ \E t \in TaskIds :
              /\ tasks[t].pc = "done"
              /\ tasks[t].result = "sent"
              /\ tasks[t].sender = "a"
              /\ tasks[t].socksAtBegin >= s

\* C20: a message is persisted only for a sender who is, at that moment, an
\* active participant of its conversation.
C20_ActiveSenderOnly ==
    [][Len(msgs') > Len(msgs) =>
          LET m == msgs'[Len(msgs')]
          IN m.sender \in ActiveUsers(convs[m.conversation])]_vars

\* a message:send addressed by id to a group has been handled to its end
SentToGroup(t) ==
    /\ tasks[t].pc = "done"
    /\ tasks[t].conversationId \in ConvIds
    /\ convs[tasks[t].conversationId].type = "group"

\* C21: a send into a group is accepted exactly when the sender may send:
\* an active participant who is an admin when only admins can send, and who
\* holds canSendMessages otherwise.
C21_SendPermissions ==
    \A t \in TaskIds :
        SentToGroup(t) =>
            (tasks[t].result = "sent"
                <=> canUserSendMessages(convs[tasks[t].conversationId], Oid(tasks[t].sender)))

EntriesKept ==
    /\ Len(convs') >= Len(convs)
    /\ \A c \in ConvIds :
          /\ Len(convs'[c].participants) >= Len(convs[c].participants)
          /\ \A i \in 1..Len(convs[c].participants) :
                convs'[c].participants[i].user = convs[c].participants[i].user

\* the step is a removeParticipant that succeeded
Removal ==
    /\ nops' = nops + 1
    /\ last'.op = "removeParticipant"
    /\ last'.err = ""

AdminRemovalByNonAdmin ==
    /\ nops' = nops + 1
    /\ last'.op = "removeParticipant"
    /\ last'.conv \in ConvIds
    /\ last'.who \in AdminUsers(convs[last'.conv])
    /\ last'.user # last'.who
    /\ last'.user \notin AdminUsers(convs[last'.conv])

\* C24: a removal of an admin asked by a non-admin fails with the permission
\* error and leaves the conversation as it was, whatever permissions the
\* actor holds.
C24_AdminNotRemovedByNonAdmin ==
    [][AdminRemovalByNonAdmin =>
          /\ last'.err = "You do not have permission to remove participants"
          /\ convs' = convs]_vars

\* C25: every direct conversation that is not deleted has exactly two
\* participant entries, both active.
C25_DirectHasTwoActive ==
    \A c \in ConvIds :
        (convs[c].type = "individual" /\ ~convs[c].isDeleted) =>
            /\ Len(convs[c].participants) = 2
            /\ \A i \in 1..Len(convs[c].participants) : convs[c].participants[i].isActive

\* C26: addParticipants on a direct conversation fails with the error for
\* direct conversations and leaves the conversation as it was.
C26_NoAddToDirect ==
    [][(/\ nops' = nops + 1
        /\ last'.op = "addParticipants"
        /\ last'.conv \in ConvIds
        /\ convs[last'.conv].type = "individual") =>
           /\ last'.err = "Cannot add participants to direct conversations"
           /\ convs' = convs]_vars

\* the last call was a createGroupConversation that returned a conversation
GroupCreated ==
    /\ last.op = "createGroup"
    /\ last.err = ""
    /\ last.conv \in ConvIds

\* C27: a group is created only with a name and at least two participants
\* besides the creator; the creator is then its only admin and holds every
\* permission, the others are plain members, and every participant's
\* counters are zero.
C27_CreateGroup ==
    GroupCreated =>
        LET c == convs[last.conv]
        IN /\ Cardinality(UsersOf(c) \ {last.user}) >= 2
           /\ c.name # ""
           /\ AdminUsers(c) = {last.user}
           /\ \A i \in 1..Len(c.participants) :
                 IF c.participants[i].user = last.user
                 THEN c.participants[i].permissions = AdminPermissions
                 ELSE /\ c.participants[i].role = "member"
                      /\ c.participants[i].permissions = MemberPermissions
           /\ \A u \in UsersOf(c) :
                 /\ u \in DOMAIN c.unreadCounts
                 /\ c.unreadCounts[u].count = 0
                 /\ c.unreadCounts[u].mentionsCount = 0

\* the step is a joinByInviteLink
JoinStep ==
    /\ nops' = nops + 1
    /\ last'.op = "joinByInviteLink"

\* C28: a join with a code that resolves to no conversation fails as invalid;
\* one by an active member fails as a conflict and one on an exhausted link
\* as exhausted, all leaving the conversations as they were; any other join
\* makes the user an active member with zeroed counters and raises
\* currentUses by one.
C28_JoinByInvite ==
    [][JoinStep =>
          IF last'.conv = 0
          THEN last'.err = "Invalid or expired invite link" /\ convs' = convs
          ELSE LET b == convs[last'.conv]
                   c == convs'[last'.conv]
                   u == last'.user
               IN IF u \in ActiveUsers(b)
                  THEN /\ last'.err = "You are already a member of this conversation"
                       /\ convs' = convs
                  ELSE IF /\ b.inviteLink.maxUses # 0
                          /\ b.inviteLink.currentUses >= b.inviteLink.maxUses
                  THEN /\ last'.err = "Invite link has reached maximum uses"
                       /\ convs' = convs
                  ELSE /\ last'.err = ""
                       /\ u \in ActiveUsers(c)
                       /\ c.participants[Len(c.participants)].role = "member"
                       /\ c.inviteLink.currentUses = b.inviteLink.currentUses + 1
                       /\ u \in DOMAIN c.unreadCounts
                       /\ c.unreadCounts[u].count = 0
                       /\ c.unreadCounts[u].mentionsCount = 0]_vars

\* the last event was a message:delete with scope "me" on a stored message
DeleteForMe ==
    /\ last.op = "message:delete"
    /\ last.arg = "me"
    /\ last.msg \in MsgIds

\* C29: a delete for me of a stored message, asked by its sender or by any
\* other viewer, succeeds: the user is in the hidden set exactly once,
\* isDeleted is as before, and only the asking connection is notified.
C29_DeleteForMe ==
    DeleteForMe =>
        /\ last.err = ""
        /\ Cardinality({i \in 1..Len(msgs[last.msg].deletedFor) :
                           msgs[last.msg].deletedFor[i] = last.user}) = 1
        /\ <<msgs[last.msg].isDeleted>> = last.before
        /\ last.emitted = 1
        /\ Received(last.sock, "message:deleted", last.msg)

\* the reactions of user u in a list of reactions, in order
ReactionsBy(reactions, u) == SelectSeq(reactions, LAMBDA r : r.user = u)

\* C30: each user has at most one reaction on each message; an addReaction
\* leaves the user with the new emoji only, and neither call changes the
\* reactions of the other users.
C30_OneReactionPerUser ==
    /\ \A m \in MsgIds, u \in Users : Len(ReactionsBy(msgs[m].reactions, u)) <= 1
    /\ (last.op \in {"addReaction", "removeReaction"} /\ last.before # <<>>) =>
          /\ \A u \in Users \ {last.who} :
                ReactionsBy(msgs[last.msg].reactions, u) = ReactionsBy(last.before[1], u)
          /\ last.op = "addReaction" =>
                ReactionsBy(msgs[last.msg].reactions, last.who)
                    = <<[user |-> last.who, emoji |-> last.arg]>>


----------------------------------------------------------------------------
(* Follow relationships (src/src/modules/users/service.js) *)

\* a user document: the relationship arrays, only written with $addToSet and
\* $pull, their counters, and the two privacy flags requestFollow reads
UserDoc(isPrivate, allowRequests) ==
    [isOnline |-> FALSE, lastSeen |-> 0 - 1,
     following |-> {}, followers |-> {}, pendingFollowRequests |-> {}, blockedUsers |-> {},
     followingCount |-> 0, followersCount |-> 0, pendingFollowRequestsCount |-> 0,
     isPrivate |-> isPrivate, allow_friends_Request |-> allowRequests]

\* one update document on one user: { [operation]: { [field]: targetUserId } }
\* and, with a counter field, $inc by 1 for $addToSet and by -1 for $pull,
\* whether or not the array changed
updateRelationship(us, userId, targetUserId, operation, field, counterField) ==
    LET d == us[userId]
        arr == IF operation = "$addToSet" THEN d[field] \cup {targetUserId}
               ELSE d[field] \ {targetUserId}
        by == IF operation = "$addToSet" THEN 1 ELSE 0 - 1
        d1 == [d EXCEPT ![field] = arr]
    IN [us EXCEPT ![userId] = IF counterField = "" THEN d1
                              ELSE [d1 EXCEPT ![counterField] = @ + by]]

\* validateUsers(userId, targetUserId, checkBlocked); every user of the
\* model is stored
validateUsers(us, userId, targetUserId, checkBlocked) ==
    IF userId = targetUserId THEN "Cannot perform action on yourself"
    ELSE IF checkBlocked /\ (userId \in us[targetUserId].blockedUsers
                             \/ targetUserId \in us[userId].blockedUsers)
    THEN "Action not allowed"
    ELSE ""

\* requestFollow(followerId, userIdToFollow): both paths send the same updates
requestFollow(us, followerId, userIdToFollow, transaction) ==
    LET e == validateUsers(us, followerId, userIdToFollow, TRUE)
    IN IF e # "" THEN [err |-> e, users |-> us]
       ELSE IF userIdToFollow \in us[followerId].following
       THEN [err |-> "Already following this user", users |-> us]
       ELSE IF us[userIdToFollow].isPrivate
               /\ followerId \in us[userIdToFollow].pendingFollowRequests
       THEN [err |-> "Follow request already pending", users |-> us]
       ELSE IF us[userIdToFollow].allow_friends_Request
       THEN [err |-> "",
             users |-> updateRelationship(
                           updateRelationship(us, userIdToFollow, followerId, "$addToSet",
                                              "pendingFollowRequests",
                                              "pendingFollowRequestsCount"),
                           userIdToFollow, userIdToFollow, "$addToSet",
                           "following", "followingCount")]
       ELSE [err |-> "",
             users |-> updateRelationship(
                           updateRelationship(us, followerId, userIdToFollow, "$addToSet",
                                              "following", "followingCount"),
                           userIdToFollow, followerId, "$addToSet",
                           "followers", "followersCount")]

\* acceptFollowRequest(userId, requesterId).  With a transaction there are
\* three updates.  The update document of the fallback is an object literal
\* with the key $inc twice, of which the last one is kept: the fallback pulls
\* the request and does not decrement pendingFollowRequestsCount
acceptFollowRequest(us, userId, requesterId, transaction) ==
    LET e == validateUsers(us, userId, requesterId, TRUE)
        pulled == updateRelationship(us, userId, requesterId, "$pull", "pendingFollowRequests",
                                     IF transaction THEN "pendingFollowRequestsCount" ELSE "")
        added == updateRelationship(pulled, userId, requesterId, "$addToSet",
                                    "followers", "followersCount")
    IN IF e # "" THEN [err |-> e, users |-> us]
       ELSE [err |-> "",
             users |-> updateRelationship(added, requesterId, userId, "$addToSet",
                                          "following", "followingCount")]

\* rejectFollowRequest(userId, requesterId)
rejectFollowRequest(us, userId, requesterId, transaction) ==
    LET e == validateUsers(us, userId, requesterId, TRUE)
    IN IF e # "" THEN [err |-> e, users |-> us]
       ELSE [err |-> "",
             users |-> updateRelationship(us, userId, requesterId, "$pull",
                                          "pendingFollowRequests",
                                          "pendingFollowRequestsCount")]

\* unfollow(userId, userIdToUnfollow)
unfollow(us, userId, userIdToUnfollow, transaction) ==
    LET e == validateUsers(us, userId, userIdToUnfollow, TRUE)
    IN IF e # "" THEN [err |-> e, users |-> us]
       ELSE IF userIdToUnfollow \notin us[userId].following
       THEN [err |-> "Not following this user", users |-> us]
       ELSE [err |-> "",
             users |-> updateRelationship(
                           updateRelationship(us, userId, userIdToUnfollow, "$pull",
                                              "following", "followingCount"),
                           userIdToUnfollow, userId, "$pull", "followers", "followersCount")]

\* blockUser(userId, userIdToBlock): the removals are chosen from the
\* documents validateUsers has read
blockUser(us, userId, userIdToBlock, transaction) ==
    LET e == validateUsers(us, userId, userIdToBlock, FALSE)
        blocked == updateRelationship(us, userId, userIdToBlock, "$addToSet", "blockedUsers", "")
        u1 == IF userIdToBlock \in us[userId].following
              THEN updateRelationship(blocked, userId, userIdToBlock, "$pull",
                                      "following", "followingCount")
              ELSE blocked
        u2 == IF userId \in us[userIdToBlock].followers
              THEN updateRelationship(u1, userIdToBlock, userId, "$pull",
                                      "followers", "followersCount")
              ELSE u1
        u3 == IF userIdToBlock \in us[userId].pendingFollowRequests
              THEN updateRelationship(u2, userId, userIdToBlock, "$pull",
                                      "pendingFollowRequests", "pendingFollowRequestsCount")
              ELSE u2
    IN IF e # "" THEN [err |-> e, users |-> us] ELSE [err |-> "", users |-> u3]

FollowOps == {"requestFollow", "acceptFollowRequest", "rejectFollowRequest", "unfollow",
              "blockUser"}

\* withTransaction(executeWithTransaction), or executeWithoutTransaction when
\* the server answers code 20 (IllegalOperation) to the first update
RunFollow(op, us, x, y, transaction) ==
    CASE op = "requestFollow" -> requestFollow(us, x, y, transaction)
      [] op = "acceptFollowRequest" -> acceptFollowRequest(us, x, y, transaction)
      [] op = "rejectFollowRequest" -> rejectFollowRequest(us, x, y, transaction)
      [] op = "unfollow" -> unfollow(us, x, y, transaction)
      [] op = "blockUser" -> blockUser(us, x, y, transaction)

\* one call of the service; acceptFollowRequest then makes sure the two users
\* have a direct conversation
Follow(op, x, y, transaction) ==
    /\ LET r == RunFollow(op, users, x, y, transaction)
           cv == IF op = "acceptFollowRequest" /\ r.err = ""
                 THEN findOrCreateDirectConversation(convs, <<Str(x), Str(y)>>).convs
                 ELSE convs
       IN /\ users' = r.users
          /\ convs' = cv
          /\ Record(Call(op, 0, 0, 0, x, y, IF transaction THEN "transaction" ELSE "fallback",
                         r.err, 0, <<>>))
    /\ UNCHANGED <<msgs, socks, connectedUsers, tasks, now, timers, secs>>

\* a and c have public accounts; the two flags of b are free
InitFollow ==
    /\ convs = <<>>
    /\ msgs = <<>>
    /\ socks = <<>>
    /\ connectedUsers = [u \in Users |-> 0]
    /\ tasks = [t \in TaskIds |-> IdleTask]
    /\ now = 0
    /\ last = NoCall
    /\ prev = NoCall
    /\ nops = 0
    /\ \E p \in BOOLEAN, q \in BOOLEAN :
           users = [u \in Users |-> IF u = "b" THEN UserDoc(p, q) ELSE UserDoc(FALSE, FALSE)]
    /\ timers = {}
    /\ secs = 0

NextFollow ==
    \E op \in FollowOps, x \in Clients, y \in Clients, transaction \in BOOLEAN :
        Follow(op, x, y, transaction)

SpecFollow == InitFollow /\ [][NextFollow]_vars

----------------------------------------------------------------------------
(* Members who leave and come back (part_002 676-779, 972-1021) *)

\* a has created the group G with b, or with b and c
InitGroup ==
    /\ now = 0
    /\ secs = 0
    /\ \E ids \in {<<"a", "b">>, <<"a", "b", "c">>} :
           convs = createGroupConversation(<<>>, [i \in 1..Len(ids) |-> Str(ids[i])], "G",
                                           Str("a")).convs
    /\ msgs = <<>>
    /\ socks = <<>>
    /\ connectedUsers = [u \in Users |-> 0]
    /\ tasks = [t \in TaskIds |-> IdleTask]
    /\ last = NoCall
    /\ prev = NoCall
    /\ nops = 0
    /\ users = [u \in Users |-> [isOnline |-> FALSE, lastSeen |-> 0 - 1]]
    /\ timers = {}

\* c is added, removed, added again or joins again by the invite link, and a
\* sends messages in between; the calls run one after the other
NextRejoin ==
    \/ \E ids \in {<<"c">>, <<"c", "c">>} : Quiet /\ AddParticipants(1, ids, "a")
    \/ \E by \in {"a", "c"} : Quiet /\ RemoveParticipant(1, Str("c"), Str(by))
    \/ \E code \in StoredCodes : Quiet /\ JoinByInviteLink(code, "c")
    \/ \E t \in TaskIds : Quiet /\ GroupSend(t, 1, "a")
    \/ \E t \in TaskIds : SendReadConversation(t)
    \/ \E t \in TaskIds : SendSaveConversation(t)

SpecRejoin == InitGroup /\ [][NextRejoin]_vars

----------------------------------------------------------------------------
(* markAsRead while a message is sent (part_002 781-850) *)

\* a sends messages to the chat with b, in which b has one unread message,
\* while markAsRead calls of a and b arrive between the steps of the sends
NextReadRace ==
    \/ \E t \in TaskIds : GroupSend(t, 1, "a")
    \/ \E t \in TaskIds : SendReadConversation(t)
    \/ \E t \in TaskIds : SendSaveConversation(t)
    \/ \E u \in Clients : MarkAsRead(1, u)

SpecReadRace == InitMember /\ [][NextReadRace]_vars

----------------------------------------------------------------------------
(* Concurrent joins through one invite link (part_002 972-1021) *)

\* joinByInviteLink up to its first await: the findOne gives the call its
\* own copy of the document
JoinByInviteLoad(t, code, u) ==
    /\ tasks[t].pc = "idle"
    /\ \A t2 \in TaskIds : t2 < t => tasks[t2].pc # "idle"
    /\ LET found == FindByInvite(convs, code)
       IN tasks' = [tasks EXCEPT ![t] =
                       IF found = 0
                       THEN [IdleTask EXCEPT !.pc = "done", !.sender = u, !.result = "error",
                                             !.err = "Invalid or expired invite link"]
                       ELSE [IdleTask EXCEPT !.pc = "joinSave", !.sender = u, !.conv = found,
                                             !.doc = <<convs[found]>>]]
    /\ UNCHANGED <<convs, msgs, socks, connectedUsers, now, last, prev, nops, users, timers, secs>>

\* the rest of joinByInviteLink: the tests and the changes are made on the
\* copy, and conversation.save() writes the paths the call has modified: the
\* participants array, which the pre-save hook assigns anew (lines 1146-1151),
\* inviteLink.currentUses, and the key initializeUnreadCounts has set
JoinByInviteSave(t) ==
    /\ tasks[t].pc = "joinSave"
    /\ LET tk == tasks[t]
           doc == tk.doc[1]
           r == joinByInviteLink(<<doc>>, doc.inviteLink.code, Str(tk.sender))
       IN IF r.err # ""
          THEN /\ tasks' = [tasks EXCEPT ![t].pc = "done", ![t].result = "error",
                                         ![t].err = r.err, ![t].doc = <<>>]
               /\ UNCHANGED convs
          ELSE /\ tasks' = [tasks EXCEPT ![t].pc = "done", ![t].result = "joined",
                                         ![t].doc = <<>>]
               /\ convs' = [convs EXCEPT
                     ![tk.conv].participants = r.convs[1].participants,
                     ![tk.conv].inviteLink.currentUses = r.convs[1].inviteLink.currentUses,
                     ![tk.conv].unreadCounts =
                         IF tk.sender \in DOMAIN doc.unreadCounts THEN @
                         ELSE MapSet(@, tk.sender, ZeroUnread)]
    /\ UNCHANGED <<msgs, socks, connectedUsers, now, last, prev, nops, users, timers, secs>>

\* b and c leave the group, a makes an invite link for one use, and then b
\* and c join through it, the steps of their calls interleaved
NextInvite ==
    \/ \E p \in {"b", "c"} :
          (\A t \in TaskIds : tasks[t].pc = "idle") /\ RemoveParticipant(1, Str(p), Str(p))
    \/ (\A t \in TaskIds : tasks[t].pc = "idle") /\ GenerateInviteLink(1, "a", InviteDays, 1)
    \/ \E t \in TaskIds, code \in StoredCodes, u \in {"b", "c"} : JoinByInviteLoad(t, code, u)
    \/ \E t \in TaskIds : JoinByInviteSave(t)

SpecInvite == InitGroup /\ [][NextInvite]_vars

----------------------------------------------------------------------------
\* a message that was deleted for everyone before the last call
EditOrPinOfDeleted ==
    /\ last.op \in {"editMessage", "togglePin"}
    /\ last.before # <<>>
    /\ last.before[1].isDeleted

\* C31: once a message is deleted for everyone, editMessage and togglePin on
\* it are rejected and leave its content, media, edit history and pin state
\* as they were
C31_DeletedMessageImmutable ==
    EditOrPinOfDeleted =>
        /\ last.err # ""
        /\ msgs[last.msg].content = last.before[1].content
        /\ msgs[last.msg].media = last.before[1].media
        /\ msgs[last.msg].editHistory = last.before[1].editHistory
        /\ msgs[last.msg].isPinned = last.before[1].isPinned


\* a receipt handler that has just succeeded on a stored message
ReceiptStep(op) ==
    /\ nops' = nops + 1
    /\ last'.op = op
    /\ last'.err = ""
    /\ last'.msg \in 1..Len(msgs)

\* C32: a read receipt that succeeds leaves the user in readBy; a delivered
\* receipt that succeeds leaves the user in deliveredTo and readBy as it was
C32_ReceiptRecorded ==
    [][/\ ReceiptStep("read") => last'.user \in Range(msgs'[last'.msg].readBy)
       /\ ReceiptStep("delivered") =>
              /\ last'.user \in Range(msgs'[last'.msg].deliveredTo)
              /\ msgs'[last'.msg].readBy = msgs[last'.msg].readBy]_vars


\* every relationship array of every user has as many members as its counter
CountersMatch(us) ==
    \A u \in Users :
        /\ us[u].followingCount = Cardinality(us[u].following)
        /\ us[u].followersCount = Cardinality(us[u].followers)
        /\ us[u].pendingFollowRequestsCount = Cardinality(us[u].pendingFollowRequests)

\* a call that took the fallback path and returned
FallbackStep ==
    /\ nops' = nops + 1
    /\ last'.op \in FollowOps
    /\ last'.arg = "fallback"
    /\ last'.err = ""

\* C33: a follow operation that takes the fallback path ends in the state the
\* transactional path ends in; running the fallback again on that state
\* changes nothing; and counters that matched their arrays still match
C33_FallbackRefinesTransaction ==
    [][FallbackStep =>
          /\ users' = RunFollow(last'.op, users, last'.user, last'.who, TRUE).users
          /\ RunFollow(last'.op, users', last'.user, last'.who, FALSE).users = users'
          /\ CountersMatch(users) => CountersMatch(users')]_vars


\* the save of updateLastMessage for the message of task t
SaveStep(t) == tasks[t].pc = "saveConversation" /\ tasks'[t].pc = "done"

\* C34: the save of one sendMessage raises by exactly 1 the unread count of
\* every active participant other than the sender, leaves every other entry
\* of the counter Map as it was, and raises stats.totalMessages by exactly 1
C34_SendCountsFrame ==
    [][\A t \in TaskIds :
          SaveStep(t) =>
              LET c == tasks[t].conv
                  others == ActiveUsers(convs[c]) \ {tasks[t].sender}
              IN /\ \A u \in others :
                        getUnreadCount(convs'[c], u) = getUnreadCount(convs[c], u) + 1
                 /\ \A u \in DOMAIN convs'[c].unreadCounts \ others :
                        /\ u \in DOMAIN convs[c].unreadCounts
                        /\ convs'[c].unreadCounts[u] = convs[c].unreadCounts[u]
                 /\ convs'[c].totalMessages = convs[c].totalMessages + 1]_vars

\* a removal that has just returned without an error
RemovalReturned ==
    /\ nops' = nops + 1
    /\ last'.op = "removeParticipant"
    /\ last'.err = ""

\* C37: after removeParticipant returns successfully the target is not an
\* active participant, also when the target had left and was added again
C37_RemovedIsInactive ==
    [][RemovalReturned => ~isParticipant(convs'[last'.conv], Str(last'.who))]_vars

\* the active entries of user u in conversation c
ActiveEntries(c, u) ==
    {i \in activeParticipants(c) : c.participants[i].user = u}

\* C38: each user has at most one active participant entry per conversation
C38_OneActiveEntryPerUser ==
    \A c \in ConvIds, u \in Users : Cardinality(ActiveEntries(convs[c], u)) <= 1


\* the message:read handler has just run to its end without an error
ReadHandled ==
    /\ nops' = nops + 1
    /\ last'.op = "read"
    /\ last'.err = ""

\* C35: after message:read from U for a conversation, U's unread entry has
\* count 0 and a lastReadMessageId, and no entry was created under a key
\* other than U's user id
C35_ReadMarksConversation ==
    [][ReadHandled =>
          LET c == last'.conv
              u == last'.user
          IN /\ u \in DOMAIN convs'[c].unreadCounts
             /\ convs'[c].unreadCounts[u].count = 0
             /\ convs'[c].unreadCounts[u].lastReadMessageId # 0
             /\ DOMAIN convs'[c].unreadCounts \ DOMAIN convs[c].unreadCounts \subseteq {u}]_vars


\* a message:delivered or message:read event has just been handled
ReceiptHandled ==
    /\ nops' = nops + 1
    /\ last'.op \in {"delivered", "read"}

\* the receipt is for a stored message, names the conversation of the message
\* and comes from a participant of it who is not the sender
ReceiptAllowed ==
    /\ last'.msg \in 1..Len(msgs)
    /\ last'.conv = msgs[last'.msg].conversation
    /\ last'.user \in UsersOf(convs[last'.conv]) \ {msgs[last'.msg].sender}

\* C39: deliveredTo and readBy hold only participants of the message's
\* conversation other than its sender; a receipt from anyone else, or with
\* another conversationId, writes nothing and broadcasts nothing
C39_ReceiptsFromRecipientsOnly ==
    [][ReceiptHandled =>
          /\ \A m \in 1..Len(msgs') :
                 Range(msgs'[m].deliveredTo) \cup Range(msgs'[m].readBy) \subseteq
                     UsersOf(convs'[msgs'[m].conversation]) \ {msgs'[m].sender}
          /\ ~ReceiptAllowed => msgs' = msgs /\ convs' = convs /\ last'.emitted = 0]_vars


\* one sendMessage of a has finished and b has marked the chat read once, at
\* any point before, during or after that send
OneSendOneMarkRead ==
    /\ tasks[1].pc = "done"
    /\ \A t \in TaskIds \ {1} : tasks[t].pc = "idle"
    /\ nops = 1
    /\ last.op = "markAsRead"
    /\ last.user = "b"
    /\ last.err = ""

\* C40: when markAsRead by b runs concurrently with one sendMessage by a, b's
\* final unread count is 0 or 1, never the count before the read plus one
C40_MarkReadDuringSend ==
    OneSendOneMarkRead => getUnreadCount(convs[1], "b") \in {0, 1}


\* the users whose joinByInviteLink call into conversation c has succeeded
Admitted(c) ==
    {tasks[t].sender : t \in {x \in TaskIds : /\ tasks[x].pc = "done"
                                              /\ tasks[x].result = "joined"
                                              /\ tasks[x].conv = c}}

\* C36: with maxUses set, currentUses never exceeds maxUses and the users
\* admitted through the link never exceed maxUses, however the calls of
\* distinct users interleave
C36_InviteUsesBounded ==
    \A c \in ConvIds :
        convs[c].inviteLink.maxUses # 0 =>
            /\ convs[c].inviteLink.currentUses <= convs[c].inviteLink.maxUses
            /\ Cardinality(Admitted(c)) <= convs[c].inviteLink.maxUses

====
